---- MODULE Spec2Model ----
(***************************************************************************)
(* A model of the multi-factor scoring engine of stock-analysis-system:    *)
(* src/analyzer.py (StockAnalyzer) and src/config.py (ANALYSIS_CONFIG,     *)
(* validate_config), with the entry points that drive them.                *)
(*                                                                         *)
(* Numbers.  Python floats are modelled as exact rationals [n, d] with     *)
(* d > 0 in lowest terms; the three IEEE specials numpy produces on a      *)
(* division by zero are d = 0: NaN = 0/0, +inf = 1/0, -inf = -1/0.         *)
(***************************************************************************)
EXTENDS Integers, Sequences, FiniteSets, TLC

(***************************************************************************)
(* Bounds of the model (not program constants).                            *)
(***************************************************************************)
MaxLadderLen == 3
MaxAnchor == 3

(***************************************************************************)
(* Rational arithmetic.                                                    *)
(***************************************************************************)
Abs(x) == IF x < 0 THEN -x ELSE x

Sign(x) == IF x < 0 THEN -1 ELSE IF x > 0 THEN 1 ELSE 0

RECURSIVE GCD(_, _)
GCD(a, b) == IF b = 0 THEN a ELSE GCD(b, a % b)

\* n/d in lowest terms with a positive denominator; g is a common divisor.
Over(n, d, g) == [n |-> n \div g, d |-> d \div g]

Q(n, d) ==
    IF d = 0 THEN [n |-> Sign(n), d |-> 0]
    ELSE IF d > 0 THEN Over(n, d, GCD(Abs(n), d))
    ELSE Over(-n, -d, GCD(Abs(n), -d))

I(n) == [n |-> n, d |-> 1]

NaN == [n |-> 0, d |-> 0]
PosInf == [n |-> 1, d |-> 0]
NegInf == [n |-> -1, d |-> 0]

IsNaN(a) == a.d = 0 /\ a.n = 0
IsFinite(a) == a.d > 0

\* Comparisons: any comparison with NaN is false, as in IEEE arithmetic.
\* The cross-multiplication is done over the denominators' common factor.
LeOver(a, b, g) == a.n * (b.d \div g) <= b.n * (a.d \div g)

RLe(a, b) ==
    /\ ~IsNaN(a)
    /\ ~IsNaN(b)
    /\ IF a.d = 0 /\ b.d = 0 THEN a.n <= b.n
       ELSE LeOver(a, b, IF a.d = 0 \/ b.d = 0 THEN 1 ELSE GCD(a.d, b.d))
RLt(a, b) == a # b /\ RLe(a, b)
RGe(a, b) == RLe(b, a)
RGt(a, b) == RLt(b, a)

RNeg(a) == [n |-> -a.n, d |-> a.d]

AddOver(a, b, g) == Q(a.n * (b.d \div g) + b.n * (a.d \div g), (a.d \div g) * b.d)

RAdd(a, b) ==
    IF IsFinite(a) /\ IsFinite(b)
    THEN AddOver(a, b, GCD(a.d, b.d))
    ELSE IF IsNaN(a) \/ IsNaN(b) THEN NaN
    ELSE IF IsFinite(a) THEN b
    ELSE IF IsFinite(b) THEN a
    ELSE IF a = b THEN a ELSE NaN

RSub(a, b) == RAdd(a, RNeg(b))

MulOver(a, b, g1, g2) == Q((a.n \div g1) * (b.n \div g2), (a.d \div g2) * (b.d \div g1))

RMul(a, b) ==
    IF IsFinite(a) /\ IsFinite(b)
    THEN MulOver(a, b, GCD(Abs(a.n), b.d), GCD(Abs(b.n), a.d))
    ELSE IF IsNaN(a) \/ IsNaN(b) \/ a.n = 0 \/ b.n = 0 THEN NaN
    ELSE [n |-> Sign(a.n) * Sign(b.n), d |-> 0]

\* numpy's true division: x/0 is +-inf, 0/0 is NaN (a warning, no exception).
RDiv(a, b) ==
    IF IsFinite(a) /\ IsFinite(b)
    THEN IF b.n = 0 THEN [n |-> Sign(a.n), d |-> 0]
         ELSE RMul(a, [n |-> Sign(b.n) * b.d, d |-> Abs(b.n)])
    ELSE IF IsNaN(a) \/ IsNaN(b) THEN NaN
    ELSE IF IsFinite(a) THEN I(0)
    ELSE IF IsFinite(b) THEN [n |-> a.n * (IF b.n < 0 THEN -1 ELSE 1), d |-> 0]
    ELSE NaN

RMax(a, b) == IF RGt(b, a) THEN b ELSE a
RMin(a, b) == IF RLt(b, a) THEN b ELSE a

\* np.clip(x, lo, hi) = minimum(maximum(x, lo), hi); NaN passes through.
Clip(x, lo, hi) ==
    IF IsNaN(x) THEN NaN
    ELSE IF RLt(x, lo) THEN lo
    ELSE IF RGt(x, hi) THEN hi
    ELSE x

\* np.array(...): the sequence f in evaluated form, so that each entry is
\* computed once however often it is read.
Array(f) == f \o <<>>

\* A sequence of integers, each divided by k, as a sequence of rationals.
Dec(s, k) == [i \in 1..Len(s) |-> Q(s[i], k)]
Ints(s) == Dec(s, 1)

\* The sum of a series, by halves (the series of the model are hundreds of
\* entries long, and exact sums do not depend on the order of addition).
RECURSIVE RSumIn(_, _, _)
RSumIn(s, lo, hi) ==
    IF lo > hi THEN I(0)
    ELSE IF lo = hi THEN s[lo]
    ELSE LET mid == (lo + hi) \div 2
         IN  RAdd(RSumIn(s, lo, mid), RSumIn(s, mid + 1, hi))

RSum(s) == RSumIn(s, 1, Len(s))

(***************************************************************************)
(* sorted(): Python's stable ascending sort, by insertion.                 *)
(***************************************************************************)
\* The ladder taken as it is given, without sorting it.
Unsorted(s) == s

RECURSIVE Insert(_, _)
Insert(x, s) ==
    IF s = <<>> THEN <<x>>
    ELSE IF RLt(x, s[1]) THEN <<x>> \o s
    ELSE <<s[1]>> \o Insert(x, Tail(s))

RECURSIVE sorted(_)
sorted(s) ==
    IF s = <<>> THEN <<>>
    ELSE Insert(s[Len(s)], sorted(SubSeq(s, 1, Len(s) - 1)))

(***************************************************************************)
(* StockAnalyzer._to_percentile (analyzer.py 756-780).                     *)
(* Bracket(v, refs) is the first i (0-based) of the for loop whose pair    *)
(* holds v, or -1 when the loop falls through to `return 50`.              *)
(***************************************************************************)
\* The least of a set of indices, or -1 when there is none.
First(hits) == IF hits = {} THEN -1 ELSE CHOOSE i \in hits : \A j \in hits : i <= j

\* A loop test with strict comparisons: a value on an anchor is in no bracket.
BracketStrict(value, refs) ==
    First({i \in 0..(Len(refs) - 2) : RLt(refs[i + 1], value) /\ RLt(value, refs[i + 2])})

Bracket(value, refs) ==
    First({i \in 0..(Len(refs) - 2) : RLe(refs[i + 1], value) /\ RLe(value, refs[i + 2])})

\* The interpolation run from the upper end of the bracket down.
BetweenReversed(pct_lower, pct_upper, ratio) ==
    RSub(pct_upper, RMul(RSub(pct_upper, pct_lower), ratio))

\* pct_lower + (pct_upper - pct_lower) * ratio
Between(pct_lower, pct_upper, ratio) ==
    RAdd(pct_lower, RMul(RSub(pct_upper, pct_lower), ratio))

\* A slip in the interpolation: the lower anchor is not subtracted.
InterpolateNoLower(value, refs, i) ==
    Between(RMul(Q(i, Len(refs) - 1), I(100)),
            RMul(Q(i + 1, Len(refs) - 1), I(100)),
            RDiv(value, RSub(refs[i + 2], refs[i + 1])))

\* The body of the loop at the first i whose bracket holds the value.
Interpolate(value, refs, i) ==
    Between(RMul(Q(i, Len(refs) - 1), I(100)),
            RMul(Q(i + 1, Len(refs) - 1), I(100)),
            RDiv(RSub(value, refs[i + 1]), RSub(refs[i + 2], refs[i + 1])))

\* A step scale: every value inside a bracket gets the bracket's midpoint.
InBracketMidpoint(value, refs, i) ==
    IF i >= 0
    THEN RMul(Q(2 * i + 1, 2 * (Len(refs) - 1)), I(100))
    ELSE I(50)

\* The loop of lines 768-778 and the default after it; i is the first bracket
\* that holds the value, or -1.
InBracket(value, refs, i) == IF i >= 0 THEN Interpolate(value, refs, i) ELSE I(50)

\* Lines 763-780, on the sorted ladder.
OnLadder(value, refs) ==
    IF RLe(value, refs[1]) THEN I(0)
    ELSE IF RGe(value, refs[Len(refs)]) THEN I(100)
    ELSE InBracket(value, refs, Bracket(value, refs))

_to_percentile(value, reference_points) == OnLadder(value, sorted(reference_points))

(***************************************************************************)
(* config.ANALYSIS_CONFIG (config.py 49-302): the weights, periods,        *)
(* thresholds and reference ladders the engine reads.  Weights are exact   *)
(* hundredths.                                                             *)
(***************************************************************************)
ANALYSIS_CONFIG ==
    [weights |->
        [momentum_score |-> Q(20, 100),
         volume_score |-> Q(12, 100),
         technical_score |-> Q(18, 100),
         volatility_score |-> Q(8, 100),
         relative_strength_score |-> Q(12, 100),
         catalyst_score |-> Q(10, 100),
         fundamental_quality_score |-> Q(10, 100),
         short_interest_score |-> Q(5, 100),
         growth_score |-> Q(5, 100)],
     momentum |->
        [slope_lookback |-> 5,
         weights |-> [roc_5 |-> Q(30, 100), roc_20 |-> Q(30, 100),
                      ema_slope |-> Q(20, 100), vwap_sign |-> Q(10, 100),
                      trend_align |-> Q(10, 100)]],
     volume |->
        [rel_vol_period |-> 20,
         spike_lookback |-> 200,
         cluster_period |-> 10,
         cluster_threshold |-> Q(15, 10),
         weights |-> [rel_vol |-> Q(50, 100), spike_percentile |-> Q(30, 100),
                      hv_cluster |-> Q(20, 100)]],
     technical |->
        [rsi_period |-> 14,
         atr_period |-> 14,
         atr_lookback |-> 14,
         breakout_period |-> 20,
         weights |-> [rsi_divergence |-> Q(25, 100), atr_expansion |-> Q(25, 100),
                      ma_stack |-> Q(25, 100), breakout_prox |-> Q(25, 100)]],
     volatility |->
        [atr_period |-> 14,
         bb_period |-> 20,
         bb_std |-> 2,
         bb_lookback |-> 10,
         weights |-> [atr_percent |-> Q(60, 100), bb_signal |-> Q(40, 100)]],
     relative_strength |->
        [comparison_period |-> 5,
         chop_threshold |-> Q(1, 100),
         chop_atr_period |-> 20,
         weights |-> [vs_spy |-> Q(60, 100), vs_sector |-> Q(40, 100)],
         breadth_adjustment |-> [normal |-> Q(5, 10), choppy |-> Q(7, 10)]],
     catalyst |->
        [earnings_window_days |-> 3,
         earnings_boost |-> 70,
         pr_bonus |-> 15,
         negative_cap |-> 30,
         sentiment_keywords |->
            [positive |-> {"beat", "exceed", "strong", "growth", "upgrade",
                           "breakthrough", "record", "surge", "rally", "momentum",
                           "bullish", "outperform", "expansion", "innovation",
                           "partnership", "acquisition", "approved", "launched"},
             negative |-> {"miss", "weak", "decline", "downgrade", "concern",
                           "investigation", "probe", "lawsuit", "recall", "cut",
                           "bearish", "underperform", "loss", "delay", "suspended",
                           "warning", "restructuring", "bankruptcy"},
             major_positive |-> {"fda approval", "major contract", "breakthrough",
                                 "record earnings", "strategic partnership"},
             major_negative |-> {"sec probe", "guidance cut", "class action",
                                 "bankruptcy", "delisting"}]],
     fundamental_quality |->
        [metrics |-> [roic |-> Q(35, 100), fcf_yield |-> Q(35, 100),
                      debt_to_equity |-> Q(15, 100), eps_stability |-> Q(15, 100)],
         roic_percentile_refs |-> Ints(<<0, 5, 10, 15, 20, 30, 40, 60>>),
         fcf_yield_percentile_refs |-> Ints(<<0, 2, 4, 6, 8, 10, 15, 25>>),
         debt_to_equity_percentile_refs |-> Dec(<<0, 2, 5, 10, 15, 20, 30, 50>>, 10),
         eps_stdev_percentile_refs |-> Ints(<<0, 10, 20, 30, 50, 75, 100, 150>>)],
     short_interest |->
        [metrics |-> [days_to_cover |-> Q(40, 100), short_float |-> Q(40, 100),
                      short_change |-> Q(20, 100)],
         days_to_cover_percentile_refs |-> Ints(<<0, 1, 2, 3, 5, 7, 10, 15>>),
         short_float_percentile_refs |-> Ints(<<0, 5, 10, 15, 20, 30, 40, 60>>),
         short_change_percentile_refs |-> Ints(<<-50, -25, -10, 0, 10, 25, 50, 100>>)],
     growth |->
        [metrics |-> [revenue_growth |-> Q(40, 100), eps_growth |-> Q(40, 100),
                      cagr_5y |-> Q(20, 100)],
         revenue_growth_percentile_refs |-> Ints(<<-10, 0, 5, 10, 15, 25, 40, 60>>),
         eps_growth_percentile_refs |-> Ints(<<-20, 0, 10, 20, 30, 50, 75, 100>>),
         cagr_percentile_refs |-> Ints(<<-5, 0, 5, 10, 15, 20, 30, 50>>)],
     filters |-> [min_data_points |-> 200]]

\* sum(d.values()) of a dict of weights.
RECURSIVE SumOver(_, _)
SumOver(f, keys) ==
    IF keys = {} THEN I(0)
    ELSE LET k == CHOOSE k \in keys : TRUE
         IN  RAdd(f[k], SumOver(f, keys \ {k}))

SumValues(f) == SumOver(f, DOMAIN f)

RAbs(a) == [n |-> Abs(a.n), d |-> a.d]

(***************************************************************************)
(* config.validate_config (config.py 308-353).  Each assert that fails     *)
(* raises AssertionError; the result records which one, or ok = TRUE when  *)
(* the function returns True.                                              *)
(***************************************************************************)
required_scores ==
    {"momentum_score", "volume_score", "technical_score", "volatility_score",
     "relative_strength_score", "catalyst_score", "fundamental_quality_score",
     "short_interest_score", "growth_score"}

\* abs(total - 1.0) < 0.001
SumsToOne(total) == RLt(RAbs(RSub(total, I(1))), Q(1, 1000))

AssertionError(msg) == [ok |-> FALSE, error |-> msg]

validate_config(config, fmp_key_set) ==
    IF ~SumsToOne(SumValues(config.weights))
    THEN AssertionError("Weights must sum to 1.0")
    ELSE IF \E score \in required_scores : score \notin DOMAIN config.weights
    THEN AssertionError("Missing required score")
    ELSE IF \E key \in {"momentum", "volume", "technical", "volatility"} :
                /\ "weights" \in DOMAIN config[key]
                /\ ~SumsToOne(SumValues(config[key].weights))
    THEN AssertionError("sub-weights must sum to 1.0")
    ELSE IF \E key \in {"fundamental_quality", "short_interest", "growth"} :
                /\ "metrics" \in DOMAIN config[key]
                /\ ~SumsToOne(SumValues(config[key].metrics))
    THEN AssertionError("metrics weights must sum to 1.0")
    ELSE IF ~fmp_key_set
    THEN AssertionError("Please set your FMP API key in .env file")
    ELSE [ok |-> TRUE, error |-> ""]


(***************************************************************************)
(* numpy helpers.  A float series is a sequence of rationals; recurrences  *)
(* that would grow the denominators without bound (EMA, Wilder smoothing,  *)
(* square roots) are rounded down to a grid of 1/100, standing for the     *)
(* rounding of floating-point arithmetic.                                  *)
(***************************************************************************)
\* floor(x * k) for a finite x, without forming x.n * k.
FloorTimes(x, k) == (x.n \div x.d) * k + ((x.n % x.d) * k) \div x.d

Rnd(x) == IF IsFinite(x) THEN Q(FloorTimes(x, 100), 100) ELSE x

\* np.mean: the mean of an empty array is NaN.
Mean(s) == RDiv(RSum(s), I(Len(s)))

\* Python slices s[-k:] and s[:k] (k >= 0 here), s[a:b] by 1-based bounds.
LastN(s, k) == IF k >= Len(s) THEN s ELSE SubSeq(s, Len(s) - k + 1, Len(s))
FirstN(s, k) == IF k >= Len(s) THEN s ELSE SubSeq(s, 1, k)

\* The largest r >= 0 with r * r <= x, for an integer x >= 0.
RECURSIVE ISqrtIn(_, _, _)
ISqrtIn(x, lo, hi) ==
    IF lo >= hi THEN lo
    ELSE LET mid == (lo + hi + 1) \div 2
         IN  IF mid * mid <= x THEN ISqrtIn(x, mid, hi) ELSE ISqrtIn(x, lo, mid - 1)

\* np.sqrt on the grid of 1/100.
Sqrt(x) == IF IsFinite(x) THEN Q(ISqrtIn(FloorTimes(x, 10000), 0, 46340), 100) ELSE NaN

\* np.sum(arr < x): how many entries compare below x.
CountBelow(s, x) == Cardinality({i \in 1..Len(s) : RLt(s[i], x)})

\* np.max / np.min of a non-empty window.
SeqMax(s) == CHOOSE x \in {s[i] : i \in 1..Len(s)} : \A j \in 1..Len(s) : RLe(s[j], x)
SeqMin(s) == CHOOSE x \in {s[i] : i \in 1..Len(s)} : \A j \in 1..Len(s) : RGe(s[j], x)

\* np.argmax / np.argmin: the first position (0-based) of the extreme.
ArgMax(s) == CHOOSE i \in 0..(Len(s) - 1) :
                /\ \A j \in 1..Len(s) : RLe(s[j], s[i + 1])
                /\ \A j \in 1..i : s[j] # s[i + 1]
ArgMin(s) == CHOOSE i \in 0..(Len(s) - 1) :
                /\ \A j \in 1..Len(s) : RGe(s[j], s[i + 1])
                /\ \A j \in 1..i : s[j] # s[i + 1]

(***************************************************************************)
(* Technical indicators (analyzer.py 501-587).                             *)
(***************************************************************************)
\* The loops below run k iterations as two runs of about k/2, so that the
\* evaluation nests to a depth of log k.  Then(y, e) is e, with y evaluated
\* first (a LET definition is otherwise evaluated where it is first used, at
\* the bottom of the second run).
Then(y, e) == IF y = y THEN e ELSE e

\* k iterations of the loop of _calculate_ema; ema holds ema[period-1:] so far,
\* and its next entry belongs to data[period + Len(ema)] (1-based).
RECURSIVE EmaLoop(_, _, _, _, _)
EmaLoop(data, period, multiplier, ema, k) ==
    IF k = 0 THEN ema
    ELSE IF k = 1
    THEN LET prev == ema[Len(ema)]
         IN  Append(ema, Rnd(RAdd(RMul(RSub(data[period + Len(ema)], prev), multiplier), prev)))
    ELSE LET half == EmaLoop(data, period, multiplier, ema, k \div 2)
         IN  Then(half, EmaLoop(data, period, multiplier, half, k - (k \div 2)))

\* An EMA seeded with the first value of the series instead of the simple
\* mean of the first `period` values.
EmaSeededWithFirst(data, period) ==
    IF Len(data) < period THEN <<>>
    ELSE EmaLoop(data, period, Q(2, period + 1), <<data[1]>>, Len(data) - period)

_calculate_ema(data, period) ==
    IF Len(data) < period THEN <<>>
    ELSE EmaLoop(data, period, Q(2, period + 1), <<Mean(FirstN(data, period))>>,
                 Len(data) - period)

\* np.diff, and the gains and losses of _calculate_rsi.
Diff(s) == Array([i \in 1..(Len(s) - 1) |-> RSub(s[i + 1], s[i])])
Gains(deltas) ==
    Array([i \in 1..Len(deltas) |-> IF RGt(deltas[i], I(0)) THEN deltas[i] ELSE I(0)])
Losses(deltas) ==
    Array([i \in 1..Len(deltas) |-> IF RLt(deltas[i], I(0)) THEN RNeg(deltas[i]) ELSE I(0)])

\* k iterations of the loop of _calculate_rsi.  st is [avg_gain, avg_loss, rsi];
\* the iteration with 0-based loop index i = Len(st.rsi) - 1 reads gains[i] and
\* stores its value at rsi[i+1], the next free slot of st.rsi.
RECURSIVE RsiLoop(_, _, _, _, _)
RsiLoop(gains, losses, period, st, k) ==
    IF k = 0 THEN st
    ELSE IF k = 1
    THEN LET i == Len(st.rsi) - 1
             g == Rnd(RDiv(RAdd(RMul(st.avg_gain, I(period - 1)), gains[i + 1]), I(period)))
             l == Rnd(RDiv(RAdd(RMul(st.avg_loss, I(period - 1)), losses[i + 1]), I(period)))
             v == IF l = I(0) THEN I(100)
                  ELSE RSub(I(100), RDiv(I(100), RAdd(I(1), RDiv(g, l))))
         IN  [avg_gain |-> g, avg_loss |-> l, rsi |-> Append(st.rsi, Rnd(v))]
    ELSE LET half == RsiLoop(gains, losses, period, st, k \div 2)
         IN  Then(half, RsiLoop(gains, losses, period, half, k - (k \div 2)))

\* rsi = zeros(len(closes)); rsi[:period] = 50; the loop then fills rsi[period+1:],
\* so the slot rsi[period] keeps the 0 of np.zeros.
_calculate_rsi(closes, period) ==
    IF Len(closes) < period + 1 THEN <<I(50)>>
    ELSE LET deltas == Diff(closes)
             gains == Gains(deltas)
             losses == Losses(deltas)
         IN  RsiLoop(gains, losses, period,
                     [avg_gain |-> Mean(FirstN(gains, period)),
                      avg_loss |-> Mean(FirstN(losses, period)),
                      rsi |-> [i \in 1..period |-> I(50)] \o <<I(0)>>],
                     Len(deltas) - period).rsi

TrueRange(highs, lows, closes) ==
    Array([i \in 1..(Len(closes) - 1) |->
              RMax(RSub(highs[i + 1], lows[i + 1]),
                   RMax(RAbs(RSub(highs[i + 1], closes[i])),
                        RAbs(RSub(lows[i + 1], closes[i]))))])

\* k iterations of the loop of _calculate_atr; atr holds atr[period-1:] so far,
\* and its next entry belongs to tr[period + Len(atr)] (1-based).
RECURSIVE AtrLoop(_, _, _, _)
AtrLoop(tr, period, atr, k) ==
    IF k = 0 THEN atr
    ELSE IF k = 1
    THEN Append(atr, Rnd(RDiv(RAdd(RMul(atr[Len(atr)], I(period - 1)),
                                   tr[period + Len(atr)]), I(period))))
    ELSE LET half == AtrLoop(tr, period, atr, k \div 2)
         IN  Then(half, AtrLoop(tr, period, half, k - (k \div 2)))

_calculate_atr(highs, lows, closes, period) ==
    IF Len(closes) < period + 1 THEN <<>>
    ELSE LET tr == TrueRange(highs, lows, closes)
         IN  AtrLoop(tr, period, <<Mean(FirstN(tr, period))>>, Len(tr) - period)

\* No guard on the volume sum: a window without volume gives 0/0 = NaN.
_calculate_vwap(highs, lows, closes, volumes) ==
    LET period == IF Len(closes) < 20 THEN Len(closes) ELSE 20
        h == LastN(highs, period)
        l == LastN(lows, period)
        c == LastN(closes, period)
        v == LastN(volumes, period)
        typical_price == [i \in 1..Len(c) |-> RDiv(RAdd(RAdd(h[i], l[i]), c[i]), I(3))]
    IN  RDiv(RSum([i \in 1..Len(c) |-> RMul(typical_price[i], v[i])]), RSum(v))

\* np.std: the population standard deviation, sqrt(mean(x^2) - mean(x)^2)
\* (in exact arithmetic the same number as sqrt(mean((x - mean(x))^2))).
Std(window) ==
    LET m == Mean(window)
    IN  Sqrt(RSub(Mean([i \in 1..Len(window) |-> RMul(window[i], window[i])]), RMul(m, m)))

BBWidthAt(window, num_std) ==
    LET sma == Mean(window)
        std == Std(window)
        upper == RAdd(sma, RMul(std, I(num_std)))
        lower == RSub(sma, RMul(std, I(num_std)))
    IN  IF RGt(sma, I(0)) THEN Rnd(RMul(RDiv(RSub(upper, lower), sma), I(100))) ELSE I(0)

_calculate_bb_width(closes, period, num_std) ==
    IF Len(closes) < period THEN <<>>
    ELSE Array([k \in 1..(Len(closes) - period + 1) |->
                  BBWidthAt(SubSeq(closes, k, k + period - 1), num_std)])


(***************************************************************************)
(* Pattern detection (analyzer.py 593-667).                                *)
(***************************************************************************)
_detect_rsi_divergence(closes, rsi) ==
    IF Len(closes) < 20 \/ Len(rsi) < 20 THEN I(50)
    ELSE LET recent_closes == LastN(closes, 10)
             recent_rsi == LastN(rsi, 10)
             price_high_idx == ArgMax(recent_closes)
             rsi_high_idx == ArgMax(recent_rsi)
             price_low_idx == ArgMin(recent_closes)
             rsi_low_idx == ArgMin(recent_rsi)
         IN  IF /\ price_low_idx > 5
                /\ RGt(recent_closes[10], recent_closes[price_low_idx + 1])
                /\ RGt(recent_rsi[10], recent_rsi[rsi_low_idx + 1])
             THEN I(100)
             ELSE IF /\ price_high_idx > 5
                     /\ RLt(recent_closes[10], recent_closes[price_high_idx + 1])
                     /\ RLt(recent_rsi[10], recent_rsi[rsi_high_idx + 1])
             THEN I(0)
             ELSE I(50)

_calculate_ma_stack(price, ema20, ema50, ema200) ==
    IF RGt(price, ema20) /\ RGt(ema20, ema50) /\ RGt(ema50, ema200) THEN I(100)
    ELSE IF RLt(price, ema20) /\ RLt(ema20, ema50) /\ RLt(ema50, ema200) THEN I(0)
    ELSE I(50)

_calculate_breakout_proximity(closes, highs, lows, period) ==
    IF Len(closes) < period THEN I(0)
    ELSE LET recent_high == SeqMax(LastN(highs, period))
             recent_low == SeqMin(LastN(lows, period))
             current_price == closes[Len(closes)]
             range_size == RSub(recent_high, recent_low)
             distance_to_high == RMul(RDiv(RSub(recent_high, current_price), range_size), I(100))
             distance_to_low == RMul(RDiv(RSub(current_price, recent_low), range_size), I(100))
         IN  IF range_size = I(0) THEN I(0)
             ELSE IF RLt(distance_to_high, distance_to_low)
             THEN RSub(I(100), distance_to_high)
             ELSE RNeg(RSub(I(100), distance_to_low))

(***************************************************************************)
(* Input bundles.  A bundle is a Python dict: a function whose domain is   *)
(* the set of keys present.  A price series is a sequence of bars          *)
(* [open, high, low, close, volume] with integer fields.                   *)
(***************************************************************************)
Get(d, key, default) == IF key \in DOMAIN d THEN d[key] ELSE default

Closes(hist) == Array([i \in 1..Len(hist) |-> I(hist[i].close)])
Highs(hist) == Array([i \in 1..Len(hist) |-> I(hist[i].high)])
Lows(hist) == Array([i \in 1..Len(hist) |-> I(hist[i].low)])
Volumes(hist) == Array([i \in 1..Len(hist) |-> I(hist[i].volume)])

\* What a calculator call ends with: a returned value, or an exception.
Return(v) == [exc |-> "", value |-> v]
Raise(e) == [exc |-> e, value |-> NaN]

\* (a / b - 1) * 100
Roc(a, b) == RMul(RSub(RDiv(a, b), I(1)), I(100))

\* A sum of weight * signal terms, left to right.
Weighted(ws, xs) == RSum([i \in 1..Len(ws) |-> RMul(ws[i], xs[i])])

\* A factor that returns its 0-100 score as it is: no division by 10, no clip.
Unscaled(score) == Rnd(score)

\* np.clip(score / 10, 0, 10), the quotient rounded as a float is.
Scale10(score) == Clip(Rnd(RDiv(score, I(10))), I(0), I(10))

(***************************************************************************)
(* 1. calculate_momentum_score (analyzer.py 70-120).  ema20[-1] at line    *)
(* 104 raises IndexError when there are fewer than 20 closes, closes[-1]   *)
(* when there are none.                                                    *)
(***************************************************************************)
\* Lines 80-120, on the arrays of lines 74-78 and the indicators computed from
\* them.
MomentumFrom(closes, ema20, ema50, vwap, cfg) ==
    LET n == Len(closes)
        roc5 == IF n > 5 THEN Roc(closes[n], closes[n - 5]) ELSE I(0)
        roc5_pct == _to_percentile(roc5, Ints(<<-10, -5, -2, 0, 2, 5, 10, 20>>))
        roc20 == IF n > 20 THEN Roc(closes[n], closes[n - 20]) ELSE I(0)
        roc20_pct == _to_percentile(roc20, Ints(<<-20, -10, -5, 0, 5, 10, 20, 40>>))
        ema_slope == RMul(RDiv(RSub(ema20[Len(ema20)],
                                    ema20[Len(ema20) - cfg.slope_lookback]),
                               closes[n]), I(100))
        ema_slope_pct == IF Len(ema20) > cfg.slope_lookback
                         THEN _to_percentile(ema_slope, Dec(<<-20, -10, -5, 0, 5, 10, 20, 40>>, 10))
                         ELSE I(50)
        vwap_sign == IF RGt(closes[n], vwap) THEN I(100) ELSE I(0)
        ema20_val == ema20[Len(ema20)]
        ema50_val == IF Len(ema50) > 0 THEN ema50[Len(ema50)] ELSE ema20_val
        trend_align == IF RGt(closes[n], ema20_val) /\ RGt(ema20_val, ema50_val)
                       THEN I(100) ELSE I(0)
        w == cfg.weights
        momentum_score ==
            Weighted(<<w.roc_5, w.roc_20, w.ema_slope, w.vwap_sign, w.trend_align>>,
                     <<roc5_pct, roc20_pct, ema_slope_pct, vwap_sign, trend_align>>)
    IN  IF n < 20 THEN Raise("IndexError") ELSE Return(Scale10(momentum_score))

calculate_momentum_score(data, config) ==
    IF "historical" \notin DOMAIN data THEN Raise("KeyError")
    ELSE
        MomentumFrom(Closes(data.historical),
                     _calculate_ema(Closes(data.historical), 20),
                     _calculate_ema(Closes(data.historical), 50),
                     _calculate_vwap(Highs(data.historical), Lows(data.historical),
                                     Closes(data.historical), Volumes(data.historical)),
                     config.momentum)

(***************************************************************************)
(* 2. calculate_volume_score (analyzer.py 126-176).                        *)
(***************************************************************************)
\* How many of the last cluster_period bars have a volume above
\* cluster_threshold times the mean of the rel_vol_period bars before them.
ClusterCount(volumes, cfg) ==
    Cardinality({i \in 0..(cfg.cluster_period - 1) :
        LET pos == Len(volumes) - i
            period_vol == SubSeq(volumes, pos - cfg.rel_vol_period, pos - 1)
        IN  RGt(RDiv(volumes[pos], Mean(period_vol)), cfg.cluster_threshold)})

\* Lines 134-176, on the array of line 131.
VolumeFrom(volumes, cfg) ==
    LET n == Len(volumes)
        sma_vol == Mean(SubSeq(volumes, n - cfg.rel_vol_period, n - 1))
        rel_vol == IF RGt(sma_vol, I(0)) THEN RDiv(volumes[n], sma_vol) ELSE I(1)
        rel_vol_pct == IF n > cfg.rel_vol_period
                       THEN _to_percentile(rel_vol, Dec(<<5, 7, 9, 10, 12, 15, 20, 30>>, 10))
                       ELSE I(50)
        lookback == IF cfg.spike_lookback < n THEN cfg.spike_lookback ELSE n
        vol_percentile == IF lookback > 20
                          THEN RMul(Q(CountBelow(LastN(volumes, lookback), volumes[n]),
                                      lookback), I(100))
                          ELSE I(50)
        hv_cluster == RMul(Q(ClusterCount(volumes, cfg), cfg.cluster_period), I(100))
        hv_cluster_pct == IF n > cfg.cluster_period + cfg.rel_vol_period
                          THEN _to_percentile(hv_cluster, Ints(<<0, 10, 20, 30, 40, 50, 60, 80>>))
                          ELSE I(50)
        w == cfg.weights
        volume_score ==
            Weighted(<<w.rel_vol, w.spike_percentile, w.hv_cluster>>,
                     <<rel_vol_pct, vol_percentile, hv_cluster_pct>>)
    IN  Return(Scale10(volume_score))

calculate_volume_score(data, config) ==
    IF "historical" \notin DOMAIN data THEN Raise("KeyError")
    ELSE
        VolumeFrom(Volumes(data.historical), config.volume)

(***************************************************************************)
(* 3. calculate_technical_score (analyzer.py 182-228).  closes[-1] at      *)
(* line 210 raises IndexError on an empty series.                          *)
(***************************************************************************)
\* ATR expansion (lines 197-204): today's ATR over the ATR atr_lookback bars ago.
AtrExpansionPct(atr, cfg) ==
    LET atr_base == atr[Len(atr) - cfg.atr_lookback]
        atr_expansion == IF RGt(atr_base, I(0)) THEN RDiv(atr[Len(atr)], atr_base) ELSE I(1)
    IN  IF Len(atr) > cfg.atr_lookback
        THEN _to_percentile(atr_expansion, Dec(<<80, 90, 95, 100, 105, 110, 120, 150>>, 100))
        ELSE I(50)

\* Lines 206-214: the last value of each EMA, the price where there is none.
LastOr(ema, price) == IF Len(ema) > 0 THEN ema[Len(ema)] ELSE price

\* The percentile read off a ladder that spans the whole range of the
\* proximity.
BreakoutProxPctWideLadder(breakout_prox) ==
    _to_percentile(breakout_prox, Ints(<<-100, -75, -50, -25, 25, 50, 75, 100>>))

\* Line 217: the percentile of the breakout proximity.
BreakoutProxPct(breakout_prox) ==
    _to_percentile(breakout_prox, Ints(<<-20, -10, -5, 0, 5, 10, 20, 40>>))

\* Lines 216-228, on the four signals.
TechnicalFrom(n, rsi_div_score, atr_exp_pct, ma_stack, breakout_prox, cfg) ==
    LET breakout_prox_pct == BreakoutProxPct(breakout_prox)
        w == cfg.weights
        technical_score ==
            Weighted(<<w.rsi_divergence, w.atr_expansion, w.ma_stack, w.breakout_prox>>,
                     <<rsi_div_score, atr_exp_pct, ma_stack, breakout_prox_pct>>)
    IN  IF n = 0 THEN Raise("IndexError") ELSE Return(Scale10(technical_score))

MaStackOf(closes) ==
    _calculate_ma_stack(closes[Len(closes)],
                        LastOr(_calculate_ema(closes, 20), closes[Len(closes)]),
                        LastOr(_calculate_ema(closes, 50), closes[Len(closes)]),
                        LastOr(_calculate_ema(closes, 200), closes[Len(closes)]))

calculate_technical_score(data, config) ==
    IF "historical" \notin DOMAIN data THEN Raise("KeyError")
    ELSE
        TechnicalFrom(Len(data.historical),
                      _detect_rsi_divergence(Closes(data.historical),
                                             _calculate_rsi(Closes(data.historical),
                                                            config.technical.rsi_period)),
                      AtrExpansionPct(_calculate_atr(Highs(data.historical), Lows(data.historical),
                                                     Closes(data.historical),
                                                     config.technical.atr_period),
                                      config.technical),
                      MaStackOf(Closes(data.historical)),
                      _calculate_breakout_proximity(Closes(data.historical), Highs(data.historical),
                                                    Lows(data.historical),
                                                    config.technical.breakout_period),
                      config.technical)

(***************************************************************************)
(* 4. calculate_volatility_score (analyzer.py 234-277).                    *)
(***************************************************************************)
\* Lines 246-252: the ATR as a percentage of the price.
AtrPercentPct(atr, price) ==
    IF Len(atr) > 0 /\ RGt(price, I(0))
    THEN _to_percentile(RMul(RDiv(atr[Len(atr)], price), I(100)),
                        Ints(<<1, 2, 3, 4, 5, 6, 8, 12>>))
    ELSE I(50)

\* np.sum(arr[:k] < x) / len(arr[:k]) * 100
PercentBelow(arr, k, x) == RMul(Q(CountBelow(SubSeq(arr, 1, k), x), k), I(100))

\* Lines 254-268: the squeeze-to-expansion signal.
BBSignal(bb_width, bb_lookback) ==
    LET m == Len(bb_width)
        bb_pct_today == PercentBelow(bb_width, m - 1, bb_width[m])
        bb_pct_prior == IF m > bb_lookback + 1
                        THEN PercentBelow(bb_width, m - bb_lookback - 1,
                                          bb_width[m - bb_lookback])
                        ELSE I(50)
    IN  IF m > bb_lookback
        THEN Clip(RAdd(RMul(RSub(bb_pct_today, bb_pct_prior), Q(1, 2)), I(50)), I(0), I(100))
        ELSE I(50)

\* Lines 270-277, on the two signals.
VolatilityFrom(atr_pct, bb_signal, w) ==
    Return(Scale10(Weighted(<<w.atr_percent, w.bb_signal>>, <<atr_pct, bb_signal>>)))

calculate_volatility_score(data, config) ==
    IF "historical" \notin DOMAIN data THEN Raise("KeyError")
    ELSE
        VolatilityFrom(AtrPercentPct(_calculate_atr(Highs(data.historical), Lows(data.historical),
                                                    Closes(data.historical),
                                                    config.volatility.atr_period),
                                     Closes(data.historical)[Len(data.historical)]),
                       BBSignal(_calculate_bb_width(Closes(data.historical),
                                                    config.volatility.bb_period,
                                                    config.volatility.bb_std),
                                config.volatility.bb_lookback),
                       config.volatility.weights)


(***************************************************************************)
(* 5. calculate_relative_strength_score (analyzer.py 283-338).  The guard  *)
(* at line 295 lets a series of exactly `period` bars through, and         *)
(* closes[-period-1] then raises IndexError.                               *)
(***************************************************************************)
\* A blend whose second term is not halved.
RsBlendUnhalved(adj, w, vs_spy_pct, vs_sector_pct) ==
    RAdd(RMul(adj, RAdd(RMul(w.vs_spy, vs_spy_pct), RMul(w.vs_sector, vs_sector_pct))),
         RMul(RSub(I(1), adj), RAdd(vs_spy_pct, vs_sector_pct)))

\* Lines 329-336: the weighted blend and the equal-weight blend, mixed by the
\* breadth adjustment.
RsBlend(adj, w, vs_spy_pct, vs_sector_pct) ==
    RAdd(RMul(adj, RAdd(RMul(w.vs_spy, vs_spy_pct), RMul(w.vs_sector, vs_sector_pct))),
         RMul(RMul(RSub(I(1), adj), Q(1, 2)), RAdd(vs_spy_pct, vs_sector_pct)))

\* Lines 298-308: the percentile of the stock's rate of change over the
\* benchmark's, for series of more than comparison_period bars.
VsSpyPct(stock_closes, spy_closes, cfg) ==
    LET period == cfg.comparison_period
        n == Len(stock_closes)
        ns == Len(spy_closes)
        stock_roc == Roc(stock_closes[n], stock_closes[n - period])
        spy_roc == Roc(spy_closes[ns], spy_closes[ns - period])
    IN  _to_percentile(RSub(stock_roc, spy_roc), Ints(<<-10, -5, -2, 0, 2, 5, 10, 20>>))

\* Lines 319-327: a choppy market has a low 20-day rate of change and a
\* rising ATR.
IsChoppy(spy_closes, spy_atr, cfg) ==
    LET ns == Len(spy_closes)
        spy_roc_20d == IF ns > 20 THEN Roc(spy_closes[ns], spy_closes[ns - 20]) ELSE I(0)
    IN  /\ RLt(RAbs(spy_roc_20d), RMul(cfg.chop_threshold, I(100)))
        /\ Len(spy_atr) > 10
        /\ RGt(spy_atr[Len(spy_atr)], spy_atr[Len(spy_atr) - 10])

\* Line 329.
BreadthAdjustment(is_choppy, cfg) ==
    IF is_choppy THEN cfg.breadth_adjustment.choppy ELSE cfg.breadth_adjustment.normal

\* Lines 295-338, on the three close arrays and the ATR of the benchmark.
RelativeStrengthFrom(stock_closes, spy_closes, sector_closes, spy_atr, cfg) ==
    LET period == cfg.comparison_period
        n == Len(stock_closes)
        ns == Len(spy_closes)
        nsec == Len(sector_closes)
        stock_roc == Roc(stock_closes[n], stock_closes[n - period])
        vs_spy_pct == VsSpyPct(stock_closes, spy_closes, cfg)
        sector_roc == Roc(sector_closes[nsec], sector_closes[nsec - period])
        vs_sector_pct == IF nsec >= period
                         THEN _to_percentile(RSub(stock_roc, sector_roc),
                                             Ints(<<-10, -5, -2, 0, 2, 5, 10, 20>>))
                         ELSE vs_spy_pct
        adj == BreadthAdjustment(IsChoppy(spy_closes, spy_atr, cfg), cfg)
        w == cfg.weights
    IN  IF n < period \/ ns < period THEN Return(I(5))
        ELSE IF n = period \/ ns = period THEN Raise("IndexError")
        ELSE IF nsec = period THEN Raise("IndexError")
        ELSE Return(Scale10(RsBlend(adj, w, vs_spy_pct, vs_sector_pct)))

calculate_relative_strength_score(data, config) ==
    IF "historical" \notin DOMAIN data THEN Raise("KeyError")
    ELSE
        RelativeStrengthFrom(Closes(data.historical),
                             Closes(Get(data, "spy_data", <<>>)),
                             Closes(Get(data, "sector_data", <<>>)),
                             _calculate_atr(Highs(Get(data, "spy_data", <<>>)),
                                            Lows(Get(data, "spy_data", <<>>)),
                                            Closes(Get(data, "spy_data", <<>>)),
                                            config.relative_strength.chop_atr_period),
                             config.relative_strength)

(***************************************************************************)
(* News and sentiment (analyzer.py 673-710).  An article's lowercased      *)
(* title and text are modelled by the set of phrases they contain;         *)
(* `keyword in text` is then: some phrase of the text has the keyword as a *)
(* substring.                                                              *)
(***************************************************************************)
IsSubstring(keyword, phrase) ==
    \/ keyword = phrase
    \/ <<keyword, phrase>> \in {<<"cut", "guidance cut">>,
                                <<"partnership", "strategic partnership">>,
                                <<"probe", "sec probe">>,
                                <<"record", "record earnings">>}

InText(keyword, text) == \E phrase \in text : IsSubstring(keyword, phrase)

ArticleSentiment(text, keywords) ==
    LET pos_count == Cardinality({word \in keywords.positive : InText(word, text)})
        neg_count == Cardinality({word \in keywords.negative : InText(word, text)})
    IN  IF pos_count + neg_count = 0 THEN I(50)
        ELSE RMul(Q(pos_count, pos_count + neg_count), I(100))

_calculate_news_sentiment(news, cfg) ==
    IF news = <<>> THEN I(50)
    ELSE Mean([i \in 1..Len(news) |-> ArticleSentiment(news[i], cfg.sentiment_keywords)])

\* A check that reads the first article only.
CheckFirstArticleOnly(news, keywords) ==
    news # <<>> /\ \E keyword \in keywords : InText(keyword, news[1])

_check_major_news(news, keywords) ==
    \E i \in 1..Len(news) : \E keyword \in keywords : InText(keyword, news[i])

(***************************************************************************)
(* _days_until (analyzer.py 807-815).  A date string is [ok, day]: whether *)
(* it parses as %Y-%m-%d, and the day it names.  now is [day, midnight]:   *)
(* today's day number and whether datetime.now() is exactly 00:00:00.      *)
(* timedelta.days is the floor of the difference in days.                  *)
(***************************************************************************)
\* A date that does not parse taken for today's.
DaysUntilUnparsedIsToday(date_str, now) ==
    IF ~date_str.ok THEN 0
    ELSE IF now.midnight THEN date_str.day - now.day
    ELSE date_str.day - now.day - 1

_days_until(date_str, now) ==
    IF ~date_str.ok THEN 999
    ELSE IF now.midnight THEN date_str.day - now.day
    ELSE date_str.day - now.day - 1

(***************************************************************************)
(* 6. calculate_catalyst_score (analyzer.py 344-373).                      *)
(***************************************************************************)
\* A window that leaves its last day out.
InEarningsWindowStrict(days_to_earnings, cfg) ==
    Abs(days_to_earnings) < cfg.earnings_window_days

\* Line 360: abs(days_to_earnings) <= cfg['earnings_window_days'].
InEarningsWindow(days_to_earnings, cfg) ==
    Abs(days_to_earnings) <= cfg.earnings_window_days

calculate_catalyst_score(data, config, now) ==
    LET news == Get(data, "news", <<>>)
        profile == Get(data, "profile", <<>>)
        cfg == config.catalyst
        base == _calculate_news_sentiment(news, cfg)
        in_window == /\ "next_earnings_date" \in DOMAIN profile
                     /\ InEarningsWindow(_days_until(profile.next_earnings_date, now), cfg)
        boosted == IF in_window THEN RMax(base, I(cfg.earnings_boost)) ELSE base
        has_major_pr == _check_major_news(news, cfg.sentiment_keywords.major_positive)
        with_pr == IF has_major_pr THEN RMin(RAdd(boosted, I(cfg.pr_bonus)), I(100))
                   ELSE boosted
        has_negative == _check_major_news(news, cfg.sentiment_keywords.major_negative)
        sentiment_score == IF has_negative THEN RMin(with_pr, I(cfg.negative_cap))
                           ELSE with_pr
    IN  Return(Scale10(sentiment_score))

(***************************************************************************)
(* 7-9. The fundamental factors (analyzer.py 379-495).  Each metrics dict  *)
(* is a function from the keys present to numbers.                         *)
(***************************************************************************)
calculate_fundamental_quality_score(data, config) ==
    LET financials == Get(data, "financials", <<>>)
        cfg == config.fundamental_quality
        weights == cfg.metrics
        roic_pct == _to_percentile(Get(financials, "roic", I(0)), cfg.roic_percentile_refs)
        fcf_pct == _to_percentile(Get(financials, "fcf_yield", I(0)),
                                  cfg.fcf_yield_percentile_refs)
        debt_pct == _to_percentile(Get(financials, "debt_to_equity", I(1)),
                                   cfg.debt_to_equity_percentile_refs)
        debt_score == RSub(I(100), debt_pct)
        eps_stdev_pct == _to_percentile(Get(financials, "eps_stability", I(50)),
                                        cfg.eps_stdev_percentile_refs)
        eps_stability_score == RSub(I(100), eps_stdev_pct)
        fund_quality ==
            Weighted(<<weights.roic, weights.fcf_yield, weights.debt_to_equity,
                       weights.eps_stability>>,
                     <<roic_pct, fcf_pct, debt_score, eps_stability_score>>)
    IN  IF DOMAIN financials = {} THEN Return(I(5)) ELSE Return(Scale10(fund_quality))

calculate_short_interest_score(data, config) ==
    LET short_data == Get(data, "short_interest", <<>>)
        cfg == config.short_interest
        weights == cfg.metrics
        dtc_score == RSub(I(100), _to_percentile(Get(short_data, "days_to_cover", I(3)),
                                                 cfg.days_to_cover_percentile_refs))
        sf_score == RSub(I(100), _to_percentile(Get(short_data, "short_float_percent", I(10)),
                                                cfg.short_float_percentile_refs))
        sc_score == RSub(I(100), _to_percentile(Get(short_data, "short_change_1m", I(0)),
                                                cfg.short_change_percentile_refs))
        short_score ==
            Weighted(<<weights.days_to_cover, weights.short_float, weights.short_change>>,
                     <<dtc_score, sf_score, sc_score>>)
    IN  IF DOMAIN short_data = {} THEN Return(I(5)) ELSE Return(Scale10(short_score))

calculate_growth_score(data, config) ==
    LET growth_data == Get(data, "growth_metrics", <<>>)
        cfg == config.growth
        weights == cfg.metrics
        rev_pct == _to_percentile(Get(growth_data, "revenue_growth_1y", I(0)),
                                  cfg.revenue_growth_percentile_refs)
        eps_pct == _to_percentile(Get(growth_data, "eps_growth_1y", I(0)),
                                  cfg.eps_growth_percentile_refs)
        cagr_pct == _to_percentile(Get(growth_data, "cagr_5y", I(0)), cfg.cagr_percentile_refs)
        growth_score ==
            Weighted(<<weights.revenue_growth, weights.eps_growth, weights.cagr_5y>>,
                     <<rev_pct, eps_pct, cagr_pct>>)
    IN  IF DOMAIN growth_data = {} THEN Return(I(5)) ELSE Return(Scale10(growth_score))

(***************************************************************************)
(* calculate_options_score (analyzer.py 713-752): an additive point        *)
(* system, capped at 10.                                                   *)
(***************************************************************************)
PutCallPoints(o) ==
    IF "put_call_ratio" \notin DOMAIN o THEN I(0)
    ELSE LET put_call == o.put_call_ratio
         IN  IF RLt(put_call, Q(7, 10)) THEN I(4)
             ELSE IF RLt(put_call, Q(85, 100)) THEN I(3)
             ELSE IF RLt(put_call, I(1)) THEN I(2)
             ELSE IF RLt(put_call, Q(12, 10)) THEN Q(3, 2)
             ELSE IF RLt(put_call, Q(15, 10)) THEN I(1)
             ELSE I(0)

IvPoints(o) ==
    IF "atm_implied_volatility" \notin DOMAIN o THEN I(0)
    ELSE LET atm_iv == o.atm_implied_volatility
             iv_pct == IF RLt(atm_iv, I(1)) THEN RMul(atm_iv, I(100)) ELSE atm_iv
         IN  IF RLe(I(20), iv_pct) /\ RLe(iv_pct, I(40)) THEN I(3)
             ELSE IF RLt(I(40), iv_pct) /\ RLe(iv_pct, I(50)) THEN I(2)
             ELSE IF \/ (RLe(I(15), iv_pct) /\ RLt(iv_pct, I(20)))
                     \/ (RLt(I(50), iv_pct) /\ RLe(iv_pct, I(60))) THEN I(1)
             ELSE Q(1, 2)

OptionVolumePoints(o) ==
    LET total_vol == RAdd(Get(o, "total_call_volume", I(0)), Get(o, "total_put_volume", I(0)))
    IN  IF RGt(total_vol, I(10000)) THEN I(2)
        ELSE IF RGt(total_vol, I(5000)) THEN Q(3, 2)
        ELSE IF RGt(total_vol, I(1000)) THEN I(1)
        ELSE IF RGt(total_vol, I(100)) THEN Q(1, 2)
        ELSE I(0)

NetDeltaPoints(o) ==
    LET net_delta == Get(o, "net_delta", I(0))
    IN  IF RGt(net_delta, I(100)) THEN I(1)
        ELSE IF RGt(net_delta, I(0)) THEN Q(7, 10)
        ELSE IF RGt(net_delta, I(-100)) THEN Q(3, 10)
        ELSE I(0)

\* The point system without the early return on missing options data.
OptionsWithoutDefault(data) ==
    Return(RMin(RSum(<<PutCallPoints(Get(data, "options_analysis", <<>>)),
                       IvPoints(Get(data, "options_analysis", <<>>)),
                       OptionVolumePoints(Get(data, "options_analysis", <<>>)),
                       NetDeltaPoints(Get(data, "options_analysis", <<>>))>>), I(10)))

calculate_options_score(data) ==
    LET options_data == Get(data, "options_analysis", <<>>)
        score == RSum(<<PutCallPoints(options_data), IvPoints(options_data),
                        OptionVolumePoints(options_data), NetDeltaPoints(options_data)>>)
    IN  IF DOMAIN options_data = {} THEN Return(I(0)) ELSE Return(RMin(score, I(10)))


(***************************************************************************)
(* _validate_data and _extract_metrics (analyzer.py 782-805).              *)
(***************************************************************************)
\* The check of _validate_data with the comparison off by one.
ValidateDataStrict(data, config) ==
    IF DOMAIN data = {} \/ "historical" \notin DOMAIN data THEN FALSE
    ELSE IF Len(data.historical) <= config.filters.min_data_points THEN FALSE
    ELSE TRUE

_validate_data(data, config) ==
    IF DOMAIN data = {} \/ "historical" \notin DOMAIN data THEN FALSE
    ELSE IF Len(data.historical) < config.filters.min_data_points THEN FALSE
    ELSE TRUE

_extract_metrics(data) ==
    LET closes == Closes(data.historical)
        volumes == Volumes(data.historical)
        n == Len(closes)
    IN  [current_price |-> closes[n],
         daily_change |-> IF n > 1 THEN Roc(closes[n], closes[n - 1]) ELSE I(0),
         volume |-> volumes[n],
         avg_volume |-> IF n >= 20 THEN Mean(LastN(volumes, 20)) ELSE Mean(volumes),
         roc_5d |-> IF n > 5 THEN Roc(closes[n], closes[n - 5]) ELSE I(0),
         roc_20d |-> IF n > 20 THEN Roc(closes[n], closes[n - 20]) ELSE I(0)]

(***************************************************************************)
(* The inputs of the model: price series by shape and length, and the      *)
(* bundles built from them.                                                *)
(***************************************************************************)
Bar(c, spread, v) ==
    [open |-> c, high |-> c + spread, low |-> c - spread, close |-> c, volume |-> v]

Series(shape, n) ==
    Array([i \in 1..n |->
        CASE shape = "flat" -> Bar(50, 0, 1000)
          [] shape = "up" -> Bar(20 + (i \div 4), 1, 1000 + 10 * (i % 7))
          [] shape = "down" -> Bar(90 - (i \div 4), 1, 1000 + 10 * (i % 5))
          [] shape = "zigzag" -> Bar(50 + 3 * (i % 2) + (IF i > n - 3 THEN n - i ELSE 0),
                                     1 + (i % 3), 500 + 400 * (i % 4))
          [] shape = "rebound" -> Bar(IF i > n - 3 THEN 40 + 2 * (i - (n - 3)) ELSE 60 - (i \div 10),
                                      1, IF i = n THEN 5000 ELSE 1000)
          [] shape = "choppy" -> Bar(50, IF i > n - 12 THEN 1 + (i - (n - 12)) ELSE 1, 1000)
          [] shape = "zero" -> Bar(0, 0, 0)])

\* What the data provider answers for a ticker; a key that is absent stands
\* for an answer of None or of an empty list.  The tickers differ in what the
\* provider has: one bar too few, exactly min_data_points bars, a full history
\* with or without the optional sections, and a benchmark history of exactly
\* comparison_period bars, for the min_data_points and the comparison_period
\* of config.py.
Tickers == {"SHORT", "EXACT", "DOWN", "REB", "SPY5"}

Answer(ticker, min_data_points, comparison_period) ==
    CASE ticker = "SHORT" ->
            [historical |-> Series("up", min_data_points - 1),
             spy_data |-> Series("flat", min_data_points - 1)]
      [] ticker = "EXACT" ->
            [historical |-> Series("up", min_data_points),
             profile |-> [companyName |-> "Exact Corp",
                          next_earnings_date |-> [ok |-> TRUE, day |-> 3]],
             news |-> <<{"beat", "record earnings"}, {"growth", "miss"}>>,
             spy_data |-> Series("flat", min_data_points),
             financials |-> [roic |-> I(18), fcf_yield |-> I(4),
                             debt_to_equity |-> Q(1, 2), eps_stability |-> I(10)],
             growth_metrics |-> [revenue_growth_1y |-> I(12), eps_growth_1y |-> I(30),
                                 cagr_5y |-> I(9)]]
      [] ticker = "DOWN" ->
            [historical |-> Series("down", min_data_points + 50),
             profile |-> [companyName |-> "Down Ltd"],
             news |-> <<{"downgrade", "sec probe"}>>,
             spy_data |-> Series("up", min_data_points + 50)]
      [] ticker = "REB" ->
            [historical |-> Series("rebound", min_data_points + 1),
             spy_data |-> Series("zigzag", min_data_points + 1),
             short_interest |-> [days_to_cover |-> I(2), short_float_percent |-> I(25)],
             options_analysis |-> [put_call_ratio |-> Q(6, 10),
                                   atm_implied_volatility |-> Q(35, 100),
                                   total_call_volume |-> I(8000),
                                   total_put_volume |-> I(3000),
                                   net_delta |-> I(150)]]
      [] ticker = "SPY5" ->
            [historical |-> Series("zigzag", min_data_points),
             spy_data |-> Series("flat", comparison_period)]

Provider(ticker) ==
    Answer(ticker, ANALYSIS_CONFIG.filters.min_data_points,
           ANALYSIS_CONFIG.relative_strength.comparison_period)

\* fetch_stock_data (working_main.py 26-78): the bundle always carries the
\* same nine keys, None and empty answers replaced by empty values (an
\* options_analysis of None reads as an empty mapping in the analyzer), and
\* the short interest goes under the key 'short_interest_data'.
Bundle(ticker, answer) ==
        [symbol |-> ticker,
         historical |-> Get(answer, "historical", <<>>),
         profile |-> Get(answer, "profile", <<>>),
         news |-> Get(answer, "news", <<>>),
         spy_data |-> Get(answer, "spy_data", <<>>),
         financials |-> Get(answer, "financials", <<>>),
         options_analysis |-> Get(answer, "options_analysis", <<>>),
         short_interest_data |-> Get(answer, "short_interest", <<>>),
         growth_metrics |-> Get(answer, "growth_metrics", <<>>)]

fetch_stock_data(ticker) == Bundle(ticker, Provider(ticker))

\* The bundles a caller of the analyzer passes: the empty mapping, a mapping
\* without 'historical', and the bundles fetch_stock_data builds.
BundleIds == {"EMPTY", "NOHIST"} \cup Tickers

Bundles ==
    [id \in BundleIds |->
        CASE id = "EMPTY" -> <<>>
          [] id = "NOHIST" ->
                [symbol |-> "NOHIST", profile |-> [companyName |-> "No History Inc"]]
          [] OTHER -> fetch_stock_data(id)] @@ <<>>

StockData(id) == Bundles[id]

\* The configurations a process may run with: the one config.py ships, and
\* two that also give options_score a top-level weight.  ConfigOptionsAdded
\* adds the weight to the shipped ones, so that the weights sum to 1.10;
\* ConfigRebalanced takes it from momentum_score, so that they sum to 1.00.
ConfigOptionsAdded ==
    [ANALYSIS_CONFIG EXCEPT !.weights = [options_score |-> Q(10, 100)] @@ @]

ConfigRebalanced ==
    [ANALYSIS_CONFIG EXCEPT
        !.weights = [options_score |-> Q(10, 100), momentum_score |-> Q(10, 100)] @@ @]

Configs == {ANALYSIS_CONFIG, ConfigOptionsAdded, ConfigRebalanced}

\* A configuration a client has edited: the ROIC ladder is written from the
\* highest anchor down (_to_percentile sorts the ladder it is handed).
Reversed(s) == [i \in 1..Len(s) |-> s[Len(s) + 1 - i]]

ConfigLadderDescending ==
    [ConfigOptionsAdded EXCEPT !.fundamental_quality.roic_percentile_refs = Reversed(@)]

\* The readings of datetime.now(): the day, and whether it is exactly midnight.
MaxDay == 1
Times == [day : 0..MaxDay, midnight : BOOLEAN]

(***************************************************************************)
(* analyze_stock (analyzer.py 21-64).  The ten calculators run in the      *)
(* order of lines 44-55, each storing its score in `scores`; the first     *)
(* exception ends the call.  Line 58 then looks every key of `scores` up   *)
(* in self.weights, and a key without a weight raises KeyError.            *)
(***************************************************************************)
ScoreKeys ==
    <<"momentum_score", "volume_score", "technical_score", "volatility_score",
      "relative_strength_score", "catalyst_score", "fundamental_quality_score",
      "short_interest_score", "growth_score", "options_score">>

\* The calculators that do not read the clock.
ClockFreeKeys == {ScoreKeys[i] : i \in 1..Len(ScoreKeys)} \ {"catalyst_score"}

ClockFree(key, data, config) ==
    CASE key = "momentum_score" -> calculate_momentum_score(data, config)
      [] key = "volume_score" -> calculate_volume_score(data, config)
      [] key = "technical_score" -> calculate_technical_score(data, config)
      [] key = "volatility_score" -> calculate_volatility_score(data, config)
      [] key = "relative_strength_score" -> calculate_relative_strength_score(data, config)
      [] key = "fundamental_quality_score" -> calculate_fundamental_quality_score(data, config)
      [] key = "short_interest_score" -> calculate_short_interest_score(data, config)
      [] key = "growth_score" -> calculate_growth_score(data, config)
      [] key = "options_score" -> calculate_options_score(data)

\* They are functions of the bundle and the configuration: the table holds
\* what each ends with on the bundles and configurations of the model that
\* analyze_stock hands to them, computed once.
AllStockData == {StockData(id) : id \in BundleIds}

Calculated ==
    [data \in AllStockData, config \in Configs \cup {ConfigLadderDescending} |->
        IF _validate_data(data, config)
        THEN [key \in ClockFreeKeys |-> ClockFree(key, data, config)] @@ <<>>
        ELSE <<>>] @@ <<>>

\* What the ten calculators end with, in the order analyze_stock calls them.
Calculate(clock_free, catalyst) ==
    [i \in 1..Len(ScoreKeys) |->
        IF ScoreKeys[i] = "catalyst_score" THEN catalyst ELSE clock_free[ScoreKeys[i]]]

\* What a call of analyze_stock ends with.  kind is "none" (returned None),
\* "raised" (exc names the exception) or "returned" (result is the mapping);
\* calls lists the calculators that were invoked, in order.
Outcome(kind, exc, calls, result) ==
    [kind |-> kind, exc |-> exc, calls |-> calls, result |-> result]

\* sum(scores[k] * self.weights[k] for k in scores.keys())
Composite(scores, weights) ==
    RSum([i \in 1..Len(ScoreKeys) |-> RMul(scores[ScoreKeys[i]], weights[ScoreKeys[i]])])

\* Lines 57-64, on what the ten calculators ended with.
Compose(got, data, config) ==
    LET failed == {i \in 1..Len(ScoreKeys) : got[i].exc # ""}
        first == CHOOSE i \in failed : \A j \in failed : i <= j
        scores == [key \in {ScoreKeys[i] : i \in 1..Len(ScoreKeys)} |->
                     got[CHOOSE i \in 1..Len(ScoreKeys) : ScoreKeys[i] = key].value]
    IN  IF failed # {}
        THEN Outcome("raised", got[first].exc, SubSeq(ScoreKeys, 1, first), <<>>)
        ELSE IF \E i \in 1..Len(ScoreKeys) : ScoreKeys[i] \notin DOMAIN config.weights
        THEN Outcome("raised", "KeyError", ScoreKeys, <<>>)
        ELSE Outcome("returned", "", ScoreKeys,
                     scores @@ [composite_score |-> Composite(scores, config.weights),
                                metrics |-> _extract_metrics(data)])

analyze_stock(data, config, now) ==
    IF ~_validate_data(data, config) THEN Outcome("none", "", <<>>, <<>>)
    ELSE Compose(Calculate(Calculated[data, config],
                           calculate_catalyst_score(data, config, now)),
                 data, config)

(***************************************************************************)
(* analyze_batch (analyzer.py 821-839).  `except Exception` catches every  *)
(* exception a calculator or line 58 raises; a result is appended when it  *)
(* is truthy; the list is then sorted in place, stably, by composite_score *)
(* with reverse=True.                                                      *)
(***************************************************************************)
\* A handler that names one exception class only.
CatchesValueErrorOnly(exc) == exc = "ValueError"

Catches(exc) == TRUE

\* The sort without reverse=True.
RECURSIVE InsertAsc(_, _)
InsertAsc(x, s) ==
    IF s = <<>> THEN <<x>>
    ELSE IF RLt(x.composite_score, s[1].composite_score) THEN <<x>> \o s
    ELSE <<s[1]>> \o InsertAsc(x, Tail(s))

RECURSIVE SortAsc(_)
SortAsc(results) ==
    IF results = <<>> THEN <<>>
    ELSE InsertAsc(results[Len(results)], SortAsc(SubSeq(results, 1, Len(results) - 1)))

\* list.sort(key=composite_score, reverse=True): x goes before
\* the first entry with a strictly smaller key, after its equals.
RECURSIVE InsertDesc(_, _)
InsertDesc(x, s) ==
    IF s = <<>> THEN <<x>>
    ELSE IF RLt(s[1].composite_score, x.composite_score) THEN <<x>> \o s
    ELSE <<s[1]>> \o InsertDesc(x, Tail(s))

RECURSIVE SortDesc(_)
SortDesc(results) ==
    IF results = <<>> THEN <<>>
    ELSE InsertDesc(results[Len(results)], SortDesc(SubSeq(results, 1, Len(results) - 1)))

\* scores['symbol'] = ...; scores['company'] = ...
Labelled(scores, stock_data) ==
    scores @@ [symbol |-> Get(stock_data, "symbol", "N/A"),
               company |-> Get(Get(stock_data, "profile", <<>>), "companyName", "N/A")]

\* What a call of analyze_batch ends with: completed is FALSE when an exception
\* left the loop; analysed holds, per bundle visited, how its analyze_stock ended.
\* got[i] is what analyze_stock ends with on stocks_data[i].
RECURSIVE BatchLoop(_, _, _, _, _)
BatchLoop(stocks_data, got, i, results, analysed) ==
    IF i > Len(stocks_data)
    THEN [completed |-> TRUE, exc |-> "", results |-> SortDesc(results), analysed |-> analysed]
    ELSE IF got[i].kind = "raised" /\ ~Catches(got[i].exc)
    THEN [completed |-> FALSE, exc |-> got[i].exc, results |-> <<>>,
          analysed |-> Append(analysed, got[i].kind)]
    ELSE BatchLoop(stocks_data, got, i + 1,
                   IF got[i].kind = "returned"
                   THEN Append(results, Labelled(got[i].result, stocks_data[i]))
                   ELSE results,
                   Append(analysed, got[i].kind))

analyze_batch(stocks_data, config, now) ==
    BatchLoop(stocks_data,
              Array([i \in 1..Len(stocks_data) |-> analyze_stock(stocks_data[i], config, now)]),
              1, <<>>, <<>>)

(***************************************************************************)
(* The processes.  A behaviour follows one Python process: `python         *)
(* config.py` and `python analyzer.py`, whose __main__ blocks validate the *)
(* configuration and stop; `python working_main.py`, whose main() builds a *)
(* StockAnalyzer and analyses the tickers one by one; and a client that    *)
(* imports the modules and calls the analyzer's public methods.            *)
(***************************************************************************)
VARIABLES
    script,            \* the process this behaviour follows
    pc,                \* where it is: "start", "ready", "loop" or "done"
    analysis_config,   \* config.ANALYSIS_CONFIG as the process loaded it
    fmp_api_key_set,   \* FMP_API_KEY differs from its placeholder
    clock,             \* what datetime.now() reads
    validated,         \* validate_config has returned True in this process
    analyzer,          \* a StockAnalyzer has been constructed
    call,              \* the last call: [op, args]
    outcome            \* what the last call ended with

vars == <<script, pc, analysis_config, fmp_api_key_set, clock, validated, analyzer,
          call, outcome>>

Scripts == {"config.py", "analyzer.py", "working_main.py", "client"}

\* The longest list of bundles a client passes to analyze_batch; a list names
\* a bundle once.
MaxBatch == 3
Batches ==
    {ids \in UNION {[1..n -> BundleIds] : n \in 0..MaxBatch} :
        \A i, j \in DOMAIN ids : i # j => ids[i] # ids[j]}

Call(op, args) == [op |-> op, args |-> args]

Init ==
    /\ script \in Scripts
    /\ pc = "start"
    /\ analysis_config \in Configs
    /\ fmp_api_key_set \in BOOLEAN
    /\ clock \in {t \in Times : t.day = 0}
    /\ validated = FALSE
    /\ analyzer = FALSE
    /\ call = Call("none", <<>>)
    /\ outcome = <<>>

\* config.py 376-380 and analyzer.py 855-858 call validate_config inside a
\* try/except and stop; a client may call it whenever it likes.
ValidateConfig ==
    /\ \/ script \in {"config.py", "analyzer.py"} /\ pc = "start"
       \/ script = "client" /\ pc \in {"start", "ready"}
    /\ LET verdict == validate_config(analysis_config, fmp_api_key_set)
       IN  /\ validated' = (validated \/ verdict.ok)
           /\ outcome' = verdict
    /\ call' = Call("validate_config", <<>>)
    /\ pc' = IF script = "client" THEN pc ELSE "done"
    /\ UNCHANGED <<script, analysis_config, fmp_api_key_set, clock, analyzer>>

\* StockAnalyzer.__init__ (analyzer.py 13-15) reads the configuration and its
\* weights; it checks nothing.
Construct ==
    /\ script = "client"
    /\ pc = "start"
    /\ analyzer' = TRUE
    /\ pc' = "ready"
    /\ UNCHANGED <<script, analysis_config, fmp_api_key_set, clock, validated, call, outcome>>

AnalyzeStock(id) ==
    /\ script = "client"
    /\ pc = "ready"
    /\ call' = Call("analyze_stock", <<id>>)
    /\ outcome' = analyze_stock(StockData(id), analysis_config, clock)
    /\ pc' = "done"
    /\ UNCHANGED <<script, analysis_config, fmp_api_key_set, clock, validated, analyzer>>

AnalyzeBatch(ids) ==
    /\ script = "client"
    /\ pc = "ready"
    /\ call' = Call("analyze_batch", ids)
    /\ outcome' = analyze_batch([i \in 1..Len(ids) |-> StockData(ids[i])],
                                analysis_config, clock)
    /\ pc' = "done"
    /\ UNCHANGED <<script, analysis_config, fmp_api_key_set, clock, validated, analyzer>>

\* working_main.main up to the loop (lines 80-134): it returns when the FMP
\* key is the placeholder, and otherwise constructs the analyzer.  It never
\* calls validate_config.
MainStart ==
    /\ script = "working_main.py"
    /\ pc = "start"
    /\ IF fmp_api_key_set
       THEN analyzer' = TRUE /\ pc' = "loop"
       ELSE analyzer' = analyzer /\ pc' = "done"
    /\ UNCHANGED <<script, analysis_config, fmp_api_key_set, clock, validated, call, outcome>>

\* One round of the loop of main (lines 136-180): fetch the bundle, analyse
\* it; `except Exception` swallows what analyze_stock raises.
MainAnalyze(ticker) ==
    /\ script = "working_main.py"
    /\ pc = "loop"
    /\ call' = Call("analyze_stock", <<ticker>>)
    /\ outcome' = analyze_stock(fetch_stock_data(ticker), analysis_config, clock)
    /\ UNCHANGED <<script, pc, analysis_config, fmp_api_key_set, clock, validated, analyzer>>

\* The tickers are exhausted.
MainFinish ==
    /\ script = "working_main.py"
    /\ pc = "loop"
    /\ pc' = "done"
    /\ UNCHANGED <<script, analysis_config, fmp_api_key_set, clock, validated, analyzer,
                   call, outcome>>

\* Time passes: midnight is over, or the next day begins.
Tick ==
    /\ pc # "done"
    /\ \/ clock.midnight /\ clock' = [clock EXCEPT !.midnight = FALSE]
       \/ /\ ~clock.midnight
          /\ clock.day < MaxDay
          /\ \E m \in BOOLEAN : clock' = [day |-> clock.day + 1, midnight |-> m]
    /\ UNCHANGED <<script, pc, analysis_config, fmp_api_key_set, validated, analyzer,
                   call, outcome>>

Next ==
    \/ ValidateConfig
    \/ Construct
    \/ \E id \in BundleIds : AnalyzeStock(id)
    \/ \E ids \in Batches : AnalyzeBatch(ids)
    \/ MainStart
    \/ \E ticker \in Tickers : MainAnalyze(ticker)
    \/ MainFinish
    \/ Tick

Spec == Init /\ [][Next]_vars

(***************************************************************************)
(* _to_percentile on its own.  A value and a ladder are drawn; the step    *)
(* applies the function to them.  The values lie on the half-integers from *)
(* below the lowest anchor to above the highest, with the IEEE specials;   *)
(* the ladders are in any order, with or without repeated anchors.         *)
(***************************************************************************)
Values == {Q(k, 2) : k \in (-2)..(2 * MaxAnchor + 2)} \cup {NaN, PosInf, NegInf}
Ladders ==
    UNION {[1..n -> {I(a) : a \in 0..MaxAnchor}] : n \in 1..MaxLadderLen}
        \cup {Ints(<<1, 2, 0, 1>>)}

InitPercentile ==
    /\ script = "client"
    /\ pc = "ready"
    /\ analysis_config = ANALYSIS_CONFIG
    /\ fmp_api_key_set = TRUE
    /\ clock = [day |-> 0, midnight |-> TRUE]
    /\ validated = FALSE
    /\ analyzer = TRUE
    /\ \E value \in Values, refs \in Ladders : call = Call("_to_percentile", <<value, refs>>)
    /\ outcome = <<>>

ToPercentile ==
    /\ call.op = "_to_percentile"
    /\ pc = "ready"
    /\ outcome' = _to_percentile(call.args[1], call.args[2])
    /\ pc' = "done"
    /\ UNCHANGED <<script, analysis_config, fmp_api_key_set, clock, validated, analyzer, call>>

SpecPercentile == InitPercentile /\ [][ToPercentile]_vars

(***************************************************************************)
(* validate_config on edited configurations.  config.py is edited by hand: *)
(* an edit adds a small amount to one weight of one group, which moves the *)
(* group's sum off 1.0 by that amount.                                     *)
(***************************************************************************)
WeightGroups ==
    {"weights", "momentum", "volume", "technical", "volatility", "relative_strength",
     "fundamental_quality", "short_interest", "growth"}

Deltas == {Q(-1, 100), Q(-1, 1000), Q(-9, 10000), I(0), Q(9, 10000), Q(1, 1000), Q(1, 100)}

\* The weights of a group: the top-level weights, a factor's 'weights', or a
\* fundamental factor's 'metrics'.
GroupWeights(config, group) ==
    IF group = "weights" THEN config.weights
    ELSE IF "weights" \in DOMAIN config[group] THEN config[group].weights
    ELSE config[group].metrics

AddToOne(ws, key, delta) == [ws EXCEPT ![key] = RAdd(@, delta)]

AddToFirst(ws, delta) == AddToOne(ws, CHOOSE key \in DOMAIN ws : TRUE, delta)

Edited(group, delta) ==
    IF group = "weights"
    THEN [ANALYSIS_CONFIG EXCEPT !.weights = AddToFirst(@, delta)]
    ELSE IF "weights" \in DOMAIN ANALYSIS_CONFIG[group]
    THEN [ANALYSIS_CONFIG EXCEPT ![group].weights = AddToFirst(@, delta)]
    ELSE [ANALYSIS_CONFIG EXCEPT ![group].metrics = AddToFirst(@, delta)]

EditedConfigs == {Edited(group, delta) : group \in WeightGroups, delta \in Deltas}

InitConfig ==
    /\ script \in {"config.py", "analyzer.py"}
    /\ pc = "start"
    /\ analysis_config \in EditedConfigs
    /\ fmp_api_key_set \in BOOLEAN
    /\ clock = [day |-> 0, midnight |-> TRUE]
    /\ validated = FALSE
    /\ analyzer = FALSE
    /\ call = Call("none", <<>>)
    /\ outcome = <<>>

SpecConfig == InitConfig /\ [][ValidateConfig]_vars

(***************************************************************************)
(* The factor calculators on their own.  A client holding a StockAnalyzer  *)
(* calls one calculator on a bundle of its making, or analyze_stock on one *)
(* of the provider's bundles.  The bundles of the client's making are      *)
(* short and degenerate price series (empty, one bar, the lengths around   *)
(* the look-back periods, all-zero prices and volumes) and metric sections *)
(* whose every number is one extreme value.                                *)
(***************************************************************************)
Shapes == {"flat", "up", "down", "zigzag", "rebound", "zero"}
Lengths == {0, 1, 5, 6, 15, 20, 21, 51}

PriceInputs ==
    {[historical |-> Series(shape, n), spy_data |-> Series(spy, n)] :
        shape \in Shapes, n \in Lengths, spy \in {"flat", "zero"}}

Extremes == {I(-1000000), I(-1), I(0), Q(1, 2), I(1000000), NaN, PosInf, NegInf}

Metrics(v) ==
    [financials |-> [roic |-> v, fcf_yield |-> v, debt_to_equity |-> v, eps_stability |-> v],
     short_interest |-> [days_to_cover |-> v, short_float_percent |-> v,
                         short_change_1m |-> v],
     growth_metrics |-> [revenue_growth_1y |-> v, eps_growth_1y |-> v, cagr_5y |-> v],
     options_analysis |-> [put_call_ratio |-> v, atm_implied_volatility |-> v,
                           total_call_volume |-> v, total_put_volume |-> v,
                           net_delta |-> v],
     news |-> <<{"bankruptcy"}, {"breakthrough", "record earnings"}>>,
     profile |-> [next_earnings_date |-> [ok |-> FALSE, day |-> 0]]]

MetricInputs == {Metrics(v) : v \in Extremes}

\* A bundle whose optional sections are present and empty.
EmptySections ==
    [financials |-> <<>>, short_interest |-> <<>>, growth_metrics |-> <<>>,
     options_analysis |-> <<>>]

\* Bundles for the catalyst factor: no news or one bearish article, with no
\* earnings date or with one that parses or does not, naming a day inside,
\* at the edge of, or outside the earnings window as counted from day 0.
EarningsDates == [ok : BOOLEAN, day : {0, 3, 4, 5}]

CatalystInputs ==
    {[news |-> news, profile |-> [companyName |-> "Catalyst plc", next_earnings_date |-> date]] :
        news \in {<<>>, <<{"miss"}>>}, date \in EarningsDates}
    \cup {[news |-> news, profile |-> [companyName |-> "Catalyst plc"]] :
            news \in {<<>>, <<{"miss"}>>}}

\* A bundle whose 'financials' is the provider's ratios record as it comes,
\* under the provider's own key names (working_main.py line 74).
RawRatios ==
    [financials |-> [returnOnCapitalEmployed |-> Q(18, 100), currentRatio |-> I(2)]]

FactorInputs ==
    PriceInputs \cup MetricInputs \cup CatalystInputs \cup {<<>>, EmptySections, RawRatios}

InitFactors ==
    /\ script = "client"
    /\ pc = "ready"
    /\ analysis_config \in Configs
    /\ fmp_api_key_set = TRUE
    /\ clock \in {t \in Times : t.day = 0}
    /\ validated = FALSE
    /\ analyzer = TRUE
    /\ call = Call("none", <<>>)
    /\ outcome = <<>>

CalculateScore(key, data) ==
    /\ script = "client"
    /\ pc = "ready"
    /\ call' = Call("calculate_score", <<key, data>>)
    /\ outcome' = IF key = "catalyst_score"
                  THEN calculate_catalyst_score(data, analysis_config, clock)
                  ELSE ClockFree(key, data, analysis_config)
    /\ pc' = "done"
    /\ UNCHANGED <<script, analysis_config, fmp_api_key_set, clock, validated, analyzer>>

NextFactors ==
    \/ \E i \in 1..Len(ScoreKeys), data \in FactorInputs : CalculateScore(ScoreKeys[i], data)
    \/ \E id \in BundleIds : AnalyzeStock(id)

SpecFactors == InitFactors /\ [][NextFactors]_vars

(***************************************************************************)
(* The technical indicators on their own.  A client holding a              *)
(* StockAnalyzer calls one indicator on a short series of bars and a small *)
(* period.  A bar has high = low = close, so that a flat run of closes has *)
(* a true range of 0; prices may be 0, and so may volumes.                 *)
(***************************************************************************)
MaxSeriesLen == 4
MaxPeriod == 3

PriceLevels == {0, 1, 2}
VolumeLevels == {0, 1000}

\* The series for the price indicators differ in their closes only; those for
\* the VWAP differ in their volumes too.
Candles == {Bar(c, 0, 1000) : c \in PriceLevels}
IndicatorSeries == UNION {[1..n -> Candles] : n \in 0..MaxSeriesLen}
VwapCandles == {Bar(c, 0, v) : c \in {1, 2}, v \in VolumeLevels}
VwapSeries == UNION {[1..n -> VwapCandles] : n \in 0..MaxSeriesLen}
Periods == 1..MaxPeriod

InitIndicators ==
    /\ script = "client"
    /\ pc = "ready"
    /\ analysis_config = ANALYSIS_CONFIG
    /\ fmp_api_key_set = TRUE
    /\ clock = [day |-> 0, midnight |-> TRUE]
    /\ validated = FALSE
    /\ analyzer = TRUE
    /\ call = Call("none", <<>>)
    /\ outcome = <<>>

\* A call of an indicator on hist with a period; result is what it returns.
Indicate(op, hist, period, result) ==
    /\ script = "client"
    /\ pc = "ready"
    /\ call.op = "none"
    /\ call' = Call(op, <<hist, period>>)
    /\ outcome' = result
    /\ pc' = "done"
    /\ UNCHANGED <<script, analysis_config, fmp_api_key_set, clock, validated, analyzer>>

CalculateEma(hist, period) ==
    Indicate("_calculate_ema", hist, period, _calculate_ema(Closes(hist), period))

CalculateRsi(hist, period) ==
    Indicate("_calculate_rsi", hist, period, _calculate_rsi(Closes(hist), period))

CalculateAtr(hist, period) ==
    Indicate("_calculate_atr", hist, period,
             _calculate_atr(Highs(hist), Lows(hist), Closes(hist), period))

\* _calculate_vwap takes no period: its window is the last 20 bars.
CalculateVwap(hist) ==
    Indicate("_calculate_vwap", hist, 20,
             _calculate_vwap(Highs(hist), Lows(hist), Closes(hist), Volumes(hist)))

CalculateBBWidth(hist, period) ==
    Indicate("_calculate_bb_width", hist, period,
             _calculate_bb_width(Closes(hist), period, analysis_config.volatility.bb_std))

\* Lines 197-203 of calculate_technical_score, with atr_period and
\* atr_lookback both set to the period (config.py sets both to 14).
AtrExpansion(hist, period) ==
    Indicate("atr_expansion", hist, period,
             AtrExpansionPct(_calculate_atr(Highs(hist), Lows(hist), Closes(hist), period),
                             [atr_lookback |-> period]))

NextIndicators ==
    \/ \E hist \in IndicatorSeries, period \in Periods : CalculateEma(hist, period)
    \/ \E hist \in IndicatorSeries, period \in Periods : CalculateRsi(hist, period)
    \/ \E hist \in IndicatorSeries, period \in Periods : CalculateAtr(hist, period)
    \/ \E hist \in VwapSeries : CalculateVwap(hist)
    \/ \E hist \in IndicatorSeries, period \in Periods : CalculateBBWidth(hist, period)
    \/ \E hist \in IndicatorSeries, period \in Periods : AtrExpansion(hist, period)

SpecIndicators == InitIndicators /\ [][NextIndicators]_vars

(***************************************************************************)
(* The catalyst factor on its own, while time passes.  The bundles carry   *)
(* no news, a bearish or a bullish article, a major-negative or a          *)
(* major-positive one, or both kinds at once; the earnings date is absent, *)
(* does not parse, or names a day behind, on or ahead of the clock's.      *)
(***************************************************************************)
Headlines ==
    {<<>>, <<{"miss"}>>, <<{"beat"}>>, <<{"bankruptcy"}>>, <<{"breakthrough"}>>,
     <<{"beat"}, {"sec probe", "record earnings"}>>}

EarningsDays ==
    {[ok |-> FALSE, day |-> 0]} \cup [ok : {TRUE}, day : {-4, -3, 0, 3, 4, 5}]

CatalystBundles ==
    {[news |-> news, profile |-> [next_earnings_date |-> date]] :
        news \in Headlines, date \in EarningsDays}
    \cup {[news |-> news, profile |-> <<>>] : news \in Headlines}

NextCatalyst ==
    \/ \E data \in CatalystBundles : CalculateScore("catalyst_score", data)
    \/ Tick

SpecCatalyst == InitFactors /\ [][NextCatalyst]_vars

(***************************************************************************)
(* The relative-strength factor on its own.  The stock and the benchmark   *)
(* have one bar fewer than comparison_period, exactly that many, one more, *)
(* or a long history; the benchmark is flat, falling, or flat with a       *)
(* widening range (a choppy market); the sector series is absent, shorter  *)
(* than the period, exactly as long, or long.                              *)
(***************************************************************************)
RsLengths ==
    {ANALYSIS_CONFIG.relative_strength.comparison_period + k : k \in {-1, 0, 1, 35}}

SectorSeries ==
    {Series("up", n) :
        n \in {ANALYSIS_CONFIG.relative_strength.comparison_period + k : k \in {-2, 0, 35}}}

RsBundles ==
    LET core == {[historical |-> Series(shape, n), spy_data |-> Series(spy, m)] :
                    shape \in {"up", "down", "flat"}, n \in RsLengths,
                    spy \in {"flat", "down", "choppy"}, m \in RsLengths}
    IN  core \cup {[historical |-> c.historical, spy_data |-> c.spy_data, sector_data |-> sec] :
                      c \in core, sec \in SectorSeries}

NextRelativeStrength ==
    \E data \in RsBundles : CalculateScore("relative_strength_score", data)

SpecRelativeStrength == InitIndicators /\ [][NextRelativeStrength]_vars

(***************************************************************************)
(* What the analysis leaves behind.  Python hands the bundles and the      *)
(* configuration to the analyzer by reference, so the client sees after a  *)
(* call whatever the call did to them.  The analyzer reads the bundle with *)
(* data[...] and data.get(...) only, and writes the labels of lines        *)
(* 829-830 into the mapping analyze_stock has just built; the one object   *)
(* of the configuration it passes on is a reference ladder, to             *)
(* _to_percentile, which sorts it with sorted().  The client calls         *)
(* analyze_stock and analyze_batch one after the other; call holds the     *)
(* bundles as the last call left them.                                     *)
(***************************************************************************)
\* A ladder sorted where it is, as reference_points.sort() would leave it.
AfterSortInPlace(reference_points) == sorted(reference_points)

\* Line 761: sorted(reference_points) builds a new list; the list of the
\* caller is as it was.
AfterSorted(reference_points) == reference_points

\* The ladders a calculator hands to _to_percentile (lines 393-406, 438-448,
\* 478-486), by section of the configuration; it returns before when the
\* section of the bundle it reads is empty (lines 385, 430, 470).
LaddersOf ==
    [fundamental_quality |->
        [score |-> "fundamental_quality_score", section |-> "financials",
         refs |-> {"roic_percentile_refs", "fcf_yield_percentile_refs",
                   "debt_to_equity_percentile_refs", "eps_stdev_percentile_refs"}],
     short_interest |->
        [score |-> "short_interest_score", section |-> "short_interest",
         refs |-> {"days_to_cover_percentile_refs", "short_float_percentile_refs",
                   "short_change_percentile_refs"}],
     growth |->
        [score |-> "growth_score", section |-> "growth_metrics",
         refs |-> {"revenue_growth_percentile_refs", "eps_growth_percentile_refs",
                   "cagr_percentile_refs"}]]

\* The configuration after the calculators named in calls have run on data.
ConfigAfter(config, data, calls) ==
    [group \in DOMAIN config |->
        IF /\ group \in DOMAIN LaddersOf
           /\ \E i \in 1..Len(calls) : calls[i] = LaddersOf[group].score
           /\ DOMAIN Get(data, LaddersOf[group].section, <<>>) # {}
        THEN [k \in DOMAIN config[group] |->
                IF k \in LaddersOf[group].refs THEN AfterSorted(config[group][k])
                ELSE config[group][k]]
        ELSE config[group]]

\* The configuration after the loop of analyze_batch has visited the first
\* i bundles.
RECURSIVE ConfigAfterBatch(_, _, _, _)
ConfigAfterBatch(config, stocks_data, now, i) ==
    IF i = 0 THEN config
    ELSE LET before == ConfigAfterBatch(config, stocks_data, now, i - 1)
         IN  ConfigAfter(before, stocks_data[i],
                         analyze_stock(stocks_data[i], before, now).calls)

FrameConfigs == {ANALYSIS_CONFIG, ConfigLadderDescending}
FrameBatches == {ids \in Batches : Len(ids) <= 2}

InitFrame ==
    /\ script = "client"
    /\ pc = "ready"
    /\ analysis_config \in FrameConfigs
    /\ fmp_api_key_set = TRUE
    /\ clock \in {t \in Times : t.day = 0}
    /\ validated = FALSE
    /\ analyzer = TRUE
    /\ call = Call("none", <<>>)
    /\ outcome = <<>>

FrameAnalyzeStock(id) ==
    /\ script = "client"
    /\ pc = "ready"
    /\ outcome' = analyze_stock(StockData(id), analysis_config, clock)
    /\ analysis_config' = ConfigAfter(analysis_config, StockData(id), outcome'.calls)
    /\ call' = Call("analyze_stock", <<<<id>>, <<StockData(id)>>>>)
    /\ UNCHANGED <<script, pc, fmp_api_key_set, clock, validated, analyzer>>

FrameAnalyzeBatch(ids) ==
    /\ script = "client"
    /\ pc = "ready"
    /\ LET stocks_data == [i \in 1..Len(ids) |-> StockData(ids[i])]
       IN  /\ outcome' = analyze_batch(stocks_data, analysis_config, clock)
           /\ analysis_config' =
                 ConfigAfterBatch(analysis_config, stocks_data, clock, Len(stocks_data))
           /\ call' = Call("analyze_batch", <<ids, stocks_data>>)
    /\ UNCHANGED <<script, pc, fmp_api_key_set, clock, validated, analyzer>>

NextFrame ==
    \/ \E id \in BundleIds : FrameAnalyzeStock(id)
    \/ \E ids \in FrameBatches : FrameAnalyzeBatch(ids)

SpecFrame == InitFrame /\ [][NextFrame]_vars

(***************************************************************************)
(* The pattern detectors on their own, called as calculate_technical_score *)
(* calls them.  The divergence detector gets the closes of a series and    *)
(* the RSI computed from them; the series is flat at 5 up to its last ten  *)
(* bars, which hold one dip to 3, one peak at 7 and a last close below,    *)
(* between or above them.  The breakout proximity gets a short series      *)
(* whose bars have a range of their own, and a small period.               *)
(***************************************************************************)
SwingWindow(lo, hi, last) ==
    [i \in 1..10 |-> IF i = 10 THEN last ELSE IF i = lo THEN 3 ELSE IF i = hi THEN 7 ELSE 5]

SwingSeries ==
    {[i \in 1..lead |-> Bar(5, 0, 1000)]
        \o [i \in 1..10 |-> Bar(SwingWindow(lo, hi, last)[i], 0, 1000)] :
        lead \in {9, 10, 15}, lo \in 1..9, hi \in 1..9, last \in {2, 4, 6, 8}}

RangeCandles == {Bar(0, 0, 1000), Bar(1, 0, 1000), Bar(2, 1, 1000), Bar(3, 0, 1000)}
RangeSeries == UNION {[1..n -> RangeCandles] : n \in 0..MaxSeriesLen}

\* Lines 194-195 of calculate_technical_score.
DetectRsiDivergence(hist) ==
    Indicate("_detect_rsi_divergence", hist, analysis_config.technical.rsi_period,
             _detect_rsi_divergence(Closes(hist),
                                    _calculate_rsi(Closes(hist),
                                                   analysis_config.technical.rsi_period)))

\* Lines 216-217 of calculate_technical_score, with breakout_period set to
\* the period (config.py sets it to 20).
BreakoutProximity(hist, period) ==
    LET breakout_prox ==
            _calculate_breakout_proximity(Closes(hist), Highs(hist), Lows(hist), period)
    IN  Indicate("breakout_proximity", hist, period,
                 [breakout_prox |-> breakout_prox,
                  breakout_prox_pct |-> BreakoutProxPct(breakout_prox)])

NextPatterns ==
    \/ \E hist \in SwingSeries : DetectRsiDivergence(hist)
    \/ \E hist \in RangeSeries, period \in Periods : BreakoutProximity(hist, period)

SpecPatterns == InitIndicators /\ [][NextPatterns]_vars

(***************************************************************************)
(* Properties.  call and outcome hold the last call and what it ended     *)
(* with, so a property of an operation reads: whenever the last call was   *)
(* that operation, its outcome is such and such.                           *)
(***************************************************************************)
\* The number of bars of a bundle's 'historical' series (0 when it has none).
Bars(data) == Len(Get(data, "historical", <<>>))

\* The bundle an analyze_stock call was about, and the bundles of a batch.
Analysed == StockData(call.args[1])
Batch == [i \in DOMAIN call.args |-> StockData(call.args[i])]

\* The bundles of a batch that have at least min_data_points bars.
FullHistory == {i \in DOMAIN Batch : Bars(Batch[i]) >= analysis_config.filters.min_data_points}

\* lo <= x <= hi
InRange(x, lo, hi) == RLe(I(lo), x) /\ RLe(x, I(hi))

\* The sum over the nine weighted factors of sub-score times top-level weight.
NineFactorSum(result, weights) ==
    RSum([i \in 1..(Len(ScoreKeys) - 1) |-> RMul(result[ScoreKeys[i]], weights[ScoreKeys[i]])])

\* C1: for every bundle whose 'historical' series has at least
\* min_data_points bars, analyze_stock returns, without raising, a mapping
\* that contains the nine sub-scores, 'composite_score' and 'metrics'.
C1_ReturnsOnFullHistory ==
    (call.op = "analyze_stock" /\ Bars(Analysed) >= analysis_config.filters.min_data_points)
        => /\ outcome.kind = "returned"
           /\ (required_scores \cup {"composite_score", "metrics"}) \subseteq DOMAIN outcome.result

\* C2: the composite_score of a result of analyze_stock equals the sum over
\* exactly the nine weighted factors of sub-score times top-level weight; the
\* options score takes no part in it.
C2_CompositeIsNineFactorSum ==
    (call.op = "analyze_stock" /\ outcome.kind = "returned")
        => outcome.result.composite_score = NineFactorSum(outcome.result, analysis_config.weights)

\* C3: analyze_batch completes on every sequence of bundles: every bundle is
\* analysed, those after a bundle whose scoring raised included, and a bundle
\* whose scoring raised has no entry in the list.
C3_BatchCompletes ==
    call.op = "analyze_batch"
        => /\ outcome.completed
           /\ Len(outcome.analysed) = Len(Batch)
           /\ \A i \in DOMAIN Batch :
                outcome.analysed[i] = "raised"
                    => \A k \in DOMAIN outcome.results :
                          outcome.results[k].symbol # Get(Batch[i], "symbol", "N/A")

\* A batch in which the scoring of one bundle raised and a later one has its
\* entry in the list.
C3_RaisedThenReturned ==
    /\ call.op = "analyze_batch"
    /\ \E i, j \in DOMAIN Batch :
        /\ i < j
        /\ outcome.analysed[i] = "raised"
        /\ outcome.analysed[j] = "returned"
        /\ \E k \in DOMAIN outcome.results :
              outcome.results[k].symbol = Get(Batch[j], "symbol", "N/A")

\* C4: analyze_batch returns exactly one entry for each bundle whose series
\* has at least min_data_points bars, and none for a bundle whose series is
\* empty or shorter.
C4_OneEntryPerFullHistory ==
    call.op = "analyze_batch"
        => /\ outcome.completed
           /\ Len(outcome.results) = Cardinality(FullHistory)
           /\ \A i \in DOMAIN Batch :
                (i \in FullHistory)
                    <=> \E k \in DOMAIN outcome.results :
                          outcome.results[k].symbol = Get(Batch[i], "symbol", "N/A")

\* C5: the list analyze_batch returns is in descending order of
\* composite_score: each entry's score is at least that of the next.
C5_SortedDescending ==
    (call.op = "analyze_batch" /\ outcome.completed)
        => \A k \in 1..(Len(outcome.results) - 1) :
              RGe(outcome.results[k].composite_score, outcome.results[k + 1].composite_score)

\* A batch whose second bundle scores strictly higher than its first, both in
\* the list, the second one first.
C5_SortMovedAnEntry ==
    /\ call.op = "analyze_batch"
    /\ outcome.completed
    /\ Len(outcome.results) >= 2
    /\ Len(Batch) >= 2
    /\ outcome.results[1].symbol = Get(Batch[2], "symbol", "N/A")
    /\ outcome.results[2].symbol = Get(Batch[1], "symbol", "N/A")
    /\ RGt(outcome.results[1].composite_score, outcome.results[2].composite_score)

\* C6: on a bundle that is empty, lacks 'historical' or has fewer than
\* min_data_points bars, analyze_stock returns None without raising and
\* without calling a calculator; a series of exactly min_data_points bars is
\* accepted, and the calculators are called.
C6_ShortHistoryRefused ==
    call.op = "analyze_stock"
        => /\ Bars(Analysed) < analysis_config.filters.min_data_points
                => outcome.kind = "none" /\ outcome.calls = <<>>
           /\ Bars(Analysed) = analysis_config.filters.min_data_points
                => outcome.kind # "none" /\ outcome.calls # <<>>

\* analyze_stock has refused a bundle that is one bar short.
C6_OneBarShort ==
    /\ call.op = "analyze_stock"
    /\ Bars(Analysed) = analysis_config.filters.min_data_points - 1
    /\ outcome.kind = "none"

\* C7: validate_config raises whenever the top-level weights or the weights
\* of a factor group (momentum, volume, technical, volatility,
\* relative_strength, fundamental_quality, short_interest, growth) sum to a
\* value that differs from 1.0 by 1e-3 or more.
C7_RaisesOnBadSum ==
    (/\ call.op = "validate_config"
     /\ \E group \in WeightGroups :
            RGe(RAbs(RSub(SumValues(GroupWeights(analysis_config, group)), I(1))), Q(1, 1000)))
        => ~outcome.ok

\* C8: in every run of a script of the repository, a call of analyze_stock
\* or analyze_batch comes after a validate_config that succeeded, and no
\* score is produced under top-level weights that do not sum to 1.0.
C8_ValidatedBeforeScoring ==
    script # "client"
        => /\ call.op \in {"analyze_stock", "analyze_batch"} => validated
           /\ (call.op = "analyze_stock" /\ outcome.kind = "returned")
                => SumsToOne(SumValues(analysis_config.weights))

C10_PercentileInRange ==
    (call.op = "_to_percentile" /\ pc = "done") => InRange(outcome, 0, 100)

\* _to_percentile has interpolated: on an unsorted ladder with a repeated
\* anchor, a value strictly between two anchors got a percentile strictly
\* between 0 and 100.
C10_Interpolated ==
    /\ call.op = "_to_percentile"
    /\ pc = "done"
    /\ Len(call.args[2]) = 3
    /\ RGt(call.args[2][1], call.args[2][2])
    /\ call.args[2][1] = call.args[2][3]
    /\ RGt(outcome, I(0))
    /\ RLt(outcome, I(100))

\* The value and the ladder of a finished _to_percentile call.
PercentileDone == call.op = "_to_percentile" /\ pc = "done"
Value == call.args[1]
Ladder == call.args[2]

\* C11: _to_percentile is monotone in its value: for any ladder and any two
\* values a <= b, the percentile of a is at most the percentile of b.
C11_PercentileMonotone ==
    PercentileDone
        => \A b \in Values :
              RLe(Value, b) => RLe(outcome, _to_percentile(b, Ladder))

\* The call was on a value inside a bracket, and a larger value inside the
\* ladder has a strictly larger percentile, both strictly between 0 and 100.
C11_TwoInsideTheLadder ==
    /\ PercentileDone
    /\ RGt(outcome, I(0))
    /\ \E b \in Values :
          /\ RLt(Value, b)
          /\ RLt(outcome, _to_percentile(b, Ladder))
          /\ RLt(_to_percentile(b, Ladder), I(100))

\* C12 as stated: for any ladder, the percentile of its smallest anchor is 0
\* and the percentile of its largest anchor is 100.
C12_EndpointsOfAnyLadder ==
    PercentileDone
        => /\ Value = SeqMin(Ladder) => outcome = I(0)
           /\ Value = SeqMax(Ladder) => outcome = I(100)

\* C12 amended: for any ladder with two different anchors, the percentile of
\* its smallest anchor is 0 and the percentile of its largest anchor is 100;
\* on a ladder whose anchors are all the same number that number gets 0.
C12_EndpointsOfProperLadder ==
    PercentileDone
        => /\ Value = SeqMin(Ladder) => outcome = I(0)
           /\ (Value = SeqMax(Ladder) /\ SeqMin(Ladder) # SeqMax(Ladder)) => outcome = I(100)

\* The call was on the largest anchor of a ladder given in descending order.
C12_TopOfDescendingLadder ==
    /\ PercentileDone
    /\ Len(Ladder) >= 2
    /\ \A k \in 1..(Len(Ladder) - 1) : RGt(Ladder[k], Ladder[k + 1])
    /\ Value = Ladder[1]
    /\ outcome = I(100)

\* A ladder in strictly ascending order.
StrictlyAscending(s) == \A k \in 1..(Len(s) - 1) : RLt(s[k], s[k + 1])

\* (i + (value - ladder[i]) / (ladder[i+1] - ladder[i])) / (n - 1) * 100, for
\* the 0-based i.
PositionInBracket(value, ladder, i) ==
    RMul(RDiv(RAdd(I(i), RDiv(RSub(value, ladder[i + 1]),
                              RSub(ladder[i + 2], ladder[i + 1]))),
              I(Len(ladder) - 1)),
         I(100))

\* C13: on a strictly ascending ladder of n anchors and a value strictly
\* between the first and the last, _to_percentile returns
\* (i + (value - ladder[i]) / (ladder[i+1] - ladder[i])) / (n-1) * 100 for a
\* pair i that brackets the value, and exactly i/(n-1)*100 when the value is
\* the interior anchor ladder[i].
C13_LinearInBracket ==
    (/\ PercentileDone
     /\ StrictlyAscending(Ladder)
     /\ RLt(Ladder[1], Value)
     /\ RLt(Value, Ladder[Len(Ladder)]))
        => /\ \E i \in 0..(Len(Ladder) - 2) : RLe(Ladder[i + 1], Value) /\ RLe(Value, Ladder[i + 2])
           /\ \A i \in 0..(Len(Ladder) - 2) :
                (RLe(Ladder[i + 1], Value) /\ RLe(Value, Ladder[i + 2]))
                    => outcome = PositionInBracket(Value, Ladder, i)
           /\ \A i \in 1..(Len(Ladder) - 2) :
                Value = Ladder[i + 1] => outcome = RMul(Q(i, Len(Ladder) - 1), I(100))

\* The call was on a value a quarter of the way up the second bracket of a
\* strictly ascending ladder of three anchors.
C13_QuarterUpSecondBracket ==
    /\ PercentileDone
    /\ Len(Ladder) = 3
    /\ StrictlyAscending(Ladder)
    /\ RSub(Value, Ladder[2]) = RMul(Q(1, 4), RSub(Ladder[3], Ladder[2]))
    /\ outcome = Q(125, 2)

\* The factor and the bundle of a calculator call.
Factor == call.args[1]
FactorData == call.args[2]

\* The section of a bundle is absent or empty.
NoSection(data, key) == DOMAIN Get(data, key, <<>>) = {}

\* C14: without 'financials', 'short_interest' or 'growth_metrics' (absent or
\* empty) the fundamental quality, short interest or growth factor returns
\* exactly 5.0, and without 'options_analysis' the options factor returns
\* exactly 0.0; none of them raises.
C14_NeutralDefaults ==
    call.op = "calculate_score"
        => /\ (Factor = "fundamental_quality_score" /\ NoSection(FactorData, "financials"))
                => outcome = Return(I(5))
           /\ (Factor = "short_interest_score" /\ NoSection(FactorData, "short_interest"))
                => outcome = Return(I(5))
           /\ (Factor = "growth_score" /\ NoSection(FactorData, "growth_metrics"))
                => outcome = Return(I(5))
           /\ (Factor = "options_score" /\ NoSection(FactorData, "options_analysis"))
                => outcome = Return(I(0))

\* The options factor was called on a bundle whose optional sections are
\* present and empty, and returned 0.
C14_EmptyOptionsSection ==
    /\ call.op = "calculate_score"
    /\ Factor = "options_score"
    /\ "options_analysis" \in DOMAIN FactorData
    /\ NoSection(FactorData, "options_analysis")
    /\ "growth_metrics" \in DOMAIN FactorData
    /\ outcome = Return(I(0))

\* C15: a run of the engine on a bundle under a configuration gives the same
\* sub-scores and composite as any other run on the same bundle under the
\* same configuration, whatever the clock reads when each run happens.
C15_SameAtAnyTime ==
    /\ (call.op = "calculate_score" /\ Factor = "catalyst_score")
            => \A now \in Times :
                  calculate_catalyst_score(FactorData, analysis_config, now) = outcome
    /\ call.op = "analyze_stock"
            => \A now \in Times : analyze_stock(Analysed, analysis_config, now) = outcome

\* The closes and the period of an indicator call.
IndicatorCloses == Closes(call.args[1])
IndicatorPeriod == call.args[2]

\* C16: for every strictly increasing close series of at least period+1
\* bars, the last value of the series _calculate_rsi returns is 100.
C16_RsiAllGains ==
    (/\ call.op = "_calculate_rsi"
     /\ Len(IndicatorCloses) >= IndicatorPeriod + 1
     /\ StrictlyAscending(IndicatorCloses))
        => outcome[Len(outcome)] = I(100)

\* Every entry of a series is a finite number.
AllFinite(s) == \A k \in 1..Len(s) : IsFinite(s[k])

\* C17: no indicator divides by zero: on any series the RSI values, the ATR
\* expansion percentile, the VWAP and the Bollinger widths are finite
\* numbers, a zero divisor being replaced by a constant.
C17_NoDivisionByZero ==
    /\ call.op = "_calculate_rsi" => AllFinite(outcome)
    /\ call.op = "atr_expansion" => IsFinite(outcome)
    /\ call.op = "_calculate_vwap" => IsFinite(outcome)
    /\ call.op = "_calculate_bb_width" => AllFinite(outcome)

\* C18: _calculate_ema returns an empty series when the series is shorter
\* than the period; otherwise it returns len(series) - period + 1 values, the
\* first the simple mean of the first `period` inputs, and each later one
\* ema[t] = (x[t] - ema[t-1]) * 2/(period+1) + ema[t-1], the right-hand side
\* being the float the expression evaluates to (Rnd).
C18_EmaSeedAndRecurrence ==
    call.op = "_calculate_ema"
        => IF Len(IndicatorCloses) < IndicatorPeriod
           THEN outcome = <<>>
           ELSE /\ Len(outcome) = Len(IndicatorCloses) - IndicatorPeriod + 1
                /\ outcome[1] = RDiv(RSum(SubSeq(IndicatorCloses, 1, IndicatorPeriod)),
                                     I(IndicatorPeriod))
                /\ \A t \in 2..Len(outcome) :
                      outcome[t] =
                          Rnd(RAdd(RMul(RSub(IndicatorCloses[IndicatorPeriod + t - 1],
                                             outcome[t - 1]),
                                        RDiv(I(2), I(IndicatorPeriod + 1))),
                                   outcome[t - 1]))

\* An EMA of period 2 over four closes that are not all the same: a seed
\* that is not one of the inputs, and two steps of the recurrence.
C18_SeedThenTwoSteps ==
    /\ call.op = "_calculate_ema"
    /\ IndicatorPeriod = 2
    /\ Len(IndicatorCloses) = 4
    /\ Len(outcome) = 3
    /\ outcome[1] # IndicatorCloses[1]
    /\ outcome[1] # IndicatorCloses[2]
    /\ outcome[3] # outcome[2]

\* Wilder's smoothed average of the first t terms of xs, t >= period: the mean
\* of the first `period` terms, then avg = (avg * (period - 1) + x) / period.
RECURSIVE Wilder(_, _, _)
Wilder(xs, period, t) ==
    IF t <= period THEN RDiv(RSum(SubSeq(xs, 1, period)), I(period))
    ELSE Rnd(RDiv(RAdd(RMul(Wilder(xs, period, t - 1), I(period - 1)), xs[t]), I(period)))

\* The RSI of an average gain and an average loss: 100 when the loss is 0.
RsiOf(avg_gain, avg_loss) ==
    IF avg_loss = I(0) THEN I(100)
    ELSE Rnd(RSub(I(100), RDiv(I(100), RAdd(I(1), RDiv(avg_gain, avg_loss)))))

\* The RSI at the 0-based position p >= period of a close series, from the
\* gains and losses of the first p changes.
WilderRsi(closes, period, p) ==
    RsiOf(Wilder([k \in 1..(Len(closes) - 1) |->
                     RMax(RSub(closes[k + 1], closes[k]), I(0))], period, p),
          Wilder([k \in 1..(Len(closes) - 1) |->
                     RMax(RSub(closes[k], closes[k + 1]), I(0))], period, p))

\* C20: every position of the series _calculate_rsi returns holds the RSI of
\* the Wilder-smoothed average gain and loss at that position (100 when the
\* average loss is 0) or the default 50, nothing else; for fewer than
\* period+1 closes the result is the single value 50.
C20_RsiOrDefault ==
    call.op = "_calculate_rsi"
        => IF Len(IndicatorCloses) < IndicatorPeriod + 1
           THEN outcome = <<I(50)>>
           ELSE /\ Len(outcome) = Len(IndicatorCloses)
                /\ \A p \in 0..(Len(outcome) - 1) :
                      \/ outcome[p + 1] = I(50)
                      \/ /\ p >= IndicatorPeriod
                         /\ outcome[p + 1] = WilderRsi(IndicatorCloses, IndicatorPeriod, p)

\* The same bundle with no earnings date in its profile.
WithoutEarningsDate(data) ==
    [data EXCEPT !.profile = [k \in (DOMAIN @) \ {"next_earnings_date"} |-> @[k]]]

\* The catalyst factor was called on a bundle whose earnings date does not
\* parse as YYYY-MM-DD.
UnparsedEarningsDate ==
    /\ call.op = "calculate_score"
    /\ Factor = "catalyst_score"
    /\ "profile" \in DOMAIN FactorData
    /\ "next_earnings_date" \in DOMAIN FactorData.profile
    /\ ~FactorData.profile.next_earnings_date.ok

\* C19: an earnings date that does not parse as YYYY-MM-DD counts as far in
\* the future: _days_until returns 999 without raising, the earnings-window
\* floor is not applied, and the catalyst score is the one the same bundle
\* gets with no earnings date.
C19_UnparsedDateIsFarFuture ==
    UnparsedEarningsDate
        => /\ _days_until(FactorData.profile.next_earnings_date, clock) = 999
           /\ outcome.exc = ""
           /\ outcome = calculate_catalyst_score(WithoutEarningsDate(FactorData),
                                                 analysis_config, clock)

\* The date does not parse, and the bundle's one bearish article leaves the
\* score below the floor the earnings window would have set.
C19_BelowTheEarningsFloor ==
    /\ UnparsedEarningsDate
    /\ Len(FactorData.news) = 1
    /\ outcome.exc = ""
    /\ RLt(RMul(outcome.value, I(10)), I(analysis_config.catalyst.earnings_boost))

\* The last ten closes of the series of a divergence call, and the RSI values
\* that go with them.
RecentCloses == LastN(Closes(call.args[1]), 10)
RecentRsi == LastN(_calculate_rsi(Closes(call.args[1]), call.args[2]), 10)

\* C21: _detect_rsi_divergence returns 100 only when, within the last ten
\* bars, the lowest close lies in the first half of the window, the last
\* close is above that lowest close and the last RSI is above the lowest RSI
\* of the window.
C21_BullishNeedsEarlyLow ==
    (call.op = "_detect_rsi_divergence" /\ outcome = I(100)) =>
        /\ ArgMin(RecentCloses) < 5
        /\ RGt(RecentCloses[10], RecentCloses[ArgMin(RecentCloses) + 1])
        /\ RGt(RecentRsi[10], RecentRsi[ArgMin(RecentRsi) + 1])

\* A catalyst call, its news and its earnings date when the profile has one.
CatalystCall == call.op = "calculate_score" /\ Factor = "catalyst_score"
CatalystNews == Get(FactorData, "news", <<>>)
HasEarningsDate ==
    /\ CatalystCall
    /\ "next_earnings_date" \in DOMAIN Get(FactorData, "profile", <<>>)
    /\ FactorData.profile.next_earnings_date.ok

\* The named day begins at most k days before or after the clock's reading:
\* at midnight the distance is a whole number of days, later in the day it
\* is a fraction of a day less ahead and more behind.
WithinDays(date_str, now, k) ==
    IF now.midnight THEN Abs(date_str.day - now.day) <= k
    ELSE date_str.day - now.day \in (1 - k)..k

InsideEarningsWindow ==
    /\ HasEarningsDate
    /\ WithinDays(FactorData.profile.next_earnings_date, clock,
                  analysis_config.catalyst.earnings_window_days)

\* Some news item contains a major-negative keyword.
MajorNegativeNews ==
    \E i \in 1..Len(CatalystNews) :
        \E keyword \in analysis_config.catalyst.sentiment_keywords.major_negative :
            InText(keyword, CatalystNews[i])

\* C22: whenever the profile's next earnings date falls inside the earnings
\* window, calculate_catalyst_score returns at least 7.0, whatever the news
\* items are.
C22_FlooredWhateverTheNews ==
    InsideEarningsWindow => (outcome.exc = "" /\ RGe(outcome.value, I(7)))

\* C22, amended: whenever the profile's next earnings date falls inside the
\* earnings window and no news item contains a major-negative keyword,
\* calculate_catalyst_score returns at least 7.0.
C22_FlooredUnlessMajorNegative ==
    (InsideEarningsWindow /\ ~MajorNegativeNews)
        => (outcome.exc = "" /\ RGe(outcome.value, I(7)))

\* C22 witness: a bearish article alone scores 0, the date is on the last
\* day of the window, and the call returned the floor of 7.0.
C22_BearishOnLastDayOfWindow ==
    /\ InsideEarningsWindow
    /\ ~MajorNegativeNews
    /\ CatalystNews = <<{"miss"}>>
    /\ FactorData.profile.next_earnings_date.day - clock.day = 3
    /\ outcome = Return(I(7))

\* C23: whenever any news item contains a major-negative keyword,
\* calculate_catalyst_score returns at most 3.0, whether or not the earnings
\* floor or the major-positive bonus applied.
C23_CappedOnMajorNegative ==
    (CatalystCall /\ MajorNegativeNews)
        => (outcome.exc = "" /\ RLe(outcome.value, I(3)))

\* C23 witness: the major-negative keyword is in the second article, the
\* news also carries a major-positive keyword, the earnings date is inside
\* the window, and the call returned the cap of 3.0.
C23_CappedAfterFloorAndBonus ==
    /\ InsideEarningsWindow
    /\ MajorNegativeNews
    /\ Len(CatalystNews) = 2
    /\ _check_major_news(CatalystNews,
                         analysis_config.catalyst.sentiment_keywords.major_positive)
    /\ outcome = Return(I(3))

\* The earnings floor changed the score: it differs from what the same
\* bundle gets without its earnings date.
FloorApplied ==
    outcome # calculate_catalyst_score(WithoutEarningsDate(FactorData), analysis_config, clock)

\* C24: the earnings floor is applied exactly when the earnings date is at
\* most 3 days before or at most 3 days after the current time (observed on
\* the bundles whose news sentiment is below the floor, where applying it
\* shows in the score).
C24_SymmetricEarningsWindow ==
    (/\ HasEarningsDate
     /\ RLt(_calculate_news_sentiment(CatalystNews, analysis_config.catalyst),
            I(analysis_config.catalyst.earnings_boost)))
        => (FloorApplied <=> InsideEarningsWindow)

\* A call of the relative-strength factor on a bundle with a price series,
\* and the three series it reads.
RsCall ==
    /\ call.op = "calculate_score"
    /\ Factor = "relative_strength_score"
    /\ "historical" \in DOMAIN FactorData
RsConfig == analysis_config.relative_strength
RsStock == FactorData.historical
RsSpy == Get(FactorData, "spy_data", <<>>)
RsSector == Get(FactorData, "sector_data", <<>>)

\* The score of a bundle whose sector percentile is the benchmark's.
RsFallback ==
    LET p == VsSpyPct(Closes(RsStock), Closes(RsSpy), RsConfig)
        spy_atr == _calculate_atr(Highs(RsSpy), Lows(RsSpy), Closes(RsSpy),
                                  RsConfig.chop_atr_period)
        adj == BreadthAdjustment(IsChoppy(Closes(RsSpy), spy_atr, RsConfig), RsConfig)
    IN  Return(Scale10(RsBlend(adj, RsConfig.weights, p, p)))

\* C25: calculate_relative_strength_score does not raise on short series:
\* with fewer than period+1 bars of the stock or of the benchmark it returns
\* the neutral 5.0, and with fewer than period+1 bars of the sector it scores
\* with the benchmark percentile in the sector's place.
C25_ShortSeriesTolerated ==
    RsCall =>
        /\ outcome.exc = ""
        /\ (\/ Len(RsStock) < RsConfig.comparison_period + 1
            \/ Len(RsSpy) < RsConfig.comparison_period + 1) => outcome = Return(I(5))
        /\ (/\ Len(RsStock) >= RsConfig.comparison_period + 1
            /\ Len(RsSpy) >= RsConfig.comparison_period + 1
            /\ Len(RsSector) < RsConfig.comparison_period + 1) => outcome = RsFallback

\* The stock and the benchmark have the bars the rates of change need, and
\* the sector series is missing or shorter than the comparison period.
RsWithoutSector ==
    /\ RsCall
    /\ Len(RsStock) > RsConfig.comparison_period
    /\ Len(RsSpy) > RsConfig.comparison_period
    /\ Len(RsSector) < RsConfig.comparison_period

RsChoppy ==
    IsChoppy(Closes(RsSpy),
             _calculate_atr(Highs(RsSpy), Lows(RsSpy), Closes(RsSpy), RsConfig.chop_atr_period),
             RsConfig)

\* C30: when the sector series is missing or shorter than the comparison
\* period, the relative-strength score is the vs-benchmark percentile
\* divided by 10, in the normal and in the choppy regime alike.
C30_RegimeHasNoEffect ==
    RsWithoutSector
        => outcome = Return(Scale10(VsSpyPct(Closes(RsStock), Closes(RsSpy), RsConfig)))

\* C30 witness: a choppy benchmark, no sector series, and a percentile
\* strictly inside the scale.
C30_ChoppyWithoutSector ==
    /\ RsWithoutSector
    /\ RsChoppy
    /\ outcome.exc = ""
    /\ RGt(outcome.value, I(0))
    /\ RLt(outcome.value, I(10))

\* The keys calculate_fundamental_quality_score reads from 'financials'.
FourRatios == {"roic", "fcf_yield", "debt_to_equity", "eps_stability"}

\* C26: calculate_fundamental_quality_score returns the neutral 5.0 whenever
\* 'financials' holds none of roic, fcf_yield, debt_to_equity and
\* eps_stability, a non-empty mapping with other keys only included.
C26_NeutralWithoutTheFourRatios ==
    (/\ call.op = "calculate_score"
     /\ Factor = "fundamental_quality_score"
     /\ (DOMAIN Get(FactorData, "financials", <<>>)) \cap FourRatios = {})
        => outcome = Return(I(5))

StrictlyInsideLadder ==
    /\ PercentileDone
    /\ ~IsNaN(Value)
    /\ RGt(Value, sorted(Ladder)[1])
    /\ RLt(Value, sorted(Ladder)[Len(Ladder)])

\* C28: for a value strictly between the smallest and the largest anchor of
\* a ladder, repeated anchors or not, the loop of _to_percentile finds a
\* bracketing pair (it does not fall through to the default 50), the first
\* pair found has two distinct endpoints, and the quotient is a finite number.
C28_FirstBracketHasWidth ==
    /\ (PercentileDone /\ ~IsNaN(Value)) => IsFinite(outcome)
    /\ StrictlyInsideLadder =>
            LET refs == sorted(Ladder)
                i == Bracket(Value, refs)
            IN  /\ i >= 0
                /\ refs[i + 1] # refs[i + 2]
                /\ outcome = Interpolate(Value, refs, i)

\* C28 witness: the value lies on an anchor the ladder holds twice, so that
\* the pair of the two equal anchors brackets it too; the first pair found
\* is the one below, and the value gets that pair's upper percentile.
C28_OnRepeatedAnchor ==
    /\ StrictlyInsideLadder
    /\ sorted(Ladder) = Ints(<<0, 1, 1, 2>>)
    /\ Value = I(1)
    /\ outcome = Q(100, 3)

\* The bars and the period of a breakout call, and where its last close lies
\* in the range of the last `period` bars.
BreakoutCall == call.op = "breakout_proximity"
BreakoutBars == call.args[1]
BreakoutHigh == SeqMax(LastN(Highs(BreakoutBars), call.args[2]))
BreakoutLow == SeqMin(LastN(Lows(BreakoutBars), call.args[2]))
BreakoutClose == Closes(BreakoutBars)[Len(BreakoutBars)]
NoBreakoutRange == Len(BreakoutBars) < call.args[2] \/ BreakoutHigh = BreakoutLow
CloserToHigh ==
    RLt(RSub(BreakoutHigh, BreakoutClose), RSub(BreakoutClose, BreakoutLow))

=============================================================================
